---- MODULE Spec2Model ----
(***************************************************************************)
(* Model of the build orchestrator: the dependency resolver                *)
(* (Build.determine_subtargets), the counting semaphore (utils.Semaphore)  *)
(* and the variant/subtarget scheduler (Build.build ... build_subtarget).  *)
(***************************************************************************)
EXTENDS Integers, Sequences, FiniteSets, TLC

(***************************************************************************)
(* Bounds                                                                  *)
(***************************************************************************)
\* largest number of requirements (entries of the "subtargets" lists) of a configuration
MaxRequires == 3
\* longest list of requested targets of one determine_subtargets call
MaxTargets == 2
\* longest from-list of one determine_subtargets call
MaxFrom == 1
\* longest skip-list of one determine_subtargets call
MaxSkip == 1

\* number of threads that use one Semaphore
NumWorkers == 3
\* capacity of the Semaphore (its constructor argument)
SemCapacity == 2
\* largest amount of one acquire or release call
MaxAmount == 2

\* largest "count" of a ressource of a build configuration
MaxCapacity == 2
\* largest number of steps of a target of a build configuration
MaxSteps == 2

\* longest chain of Scope objects
NumScopes == 3
\* the Scope objects of one build: the scope of build(), two variant scopes
\* and the scopes of two subtargets of the first variant
BuildScopes == 5

\* the names of the configured targets
Names == {"A", "B", "C"}

\* Python's None
None == "None"

VARIABLES
    targets,        \* self.targets: name -> its "subtargets" list
    call,           \* arguments of the last determine_subtargets call
    result,         \* outcome of the last determine_subtargets call
    sem_count,      \* Semaphore._count
    sem_max_count,  \* Semaphore._max_count
    sem_lock,       \* owner of Semaphore._lock (0: unlocked)
    sem_waiters,    \* the threads blocked in Semaphore._lock.wait(), oldest first
    wpc,            \* per thread: its position in acquire / release
    wamount,        \* per thread: the argument "count" of its current call
    wtmp,           \* per thread: the value of _count it loaded for "+=" / "-="
    wheld,          \* per thread: the units it acquired and has not released
    locks,          \* self.targets[t]["locks"] as (name, count) pairs
    ressources,     \* self.ressources: name -> per-variant flag and count
    steps,          \* number of steps of each target
    sets,           \* whether each target declares "sets" bindings
    sets_raise,     \* per target: what the evaluation of its "sets" values raises, and after which bindings
    flags,          \* variants_in_parallel, subtargets_in_parallel, fail_early
    required_arguments, \* self.targets[t]["required-arguments"]
    self_arguments, \* the keys of self.arguments
    arguments,      \* the parameter "arguments" of build: what it is and the value it has for an argument
    sems,           \* the Semaphore objects stored in the scopes
    node,           \* per variant and subtarget: scope[subtarget] with _finished, _success, _exception
    spc,            \* per variant and subtarget: position of build_subtarget
    sdep,           \* per variant and subtarget: index in the dependency loop
    sacq,           \* per variant and subtarget: number of locks acquired
    srel,           \* per variant and subtarget: number of locks released
    sstep,          \* per variant and subtarget: number of steps whose evaluation began
    ssets,          \* per variant and subtarget: whether the loop over "sets" wrote a binding
    sret,           \* per variant and subtarget: how build_subtarget ended
    vpc,            \* per variant: position of build_variant
    vidx,           \* per variant: index of the sequential subtarget loop
    vret,           \* per variant: how build_variant ended
    bpc,            \* position of build / build_variants
    bidx,           \* index of the sequential variant loop
    bret,           \* how build ended
    sc_variables,   \* per Scope: its local mapping (Scope.__variables)
    sc_base,        \* per Scope: its base (Scope.__base)
    sc_internal,    \* per Scope: whether its mapping holds entries under other keys than Keys
    sc_live,        \* the Scope objects that exist
    sc_last,        \* the last operation on a Scope and its outcome
    ip_prog,        \* the node table of the evaluated configuration
    ip_sem,         \* the semaphore a WithRessource names: class, capacity, units taken at the start
    ip_assert,      \* whether the interpreter runs assert statements
    ip_args,        \* the positional arguments of the call
    ip_kwargs,      \* the keyword arguments of the call (0: not given)
    ip_st,          \* the scopes, the units taken and the log of evaluated nodes
    ip_out          \* how the evaluation ended

resolver_vars == <<targets, call, result>>
sem_vars == <<sem_count, sem_max_count, sem_lock, sem_waiters, wpc, wamount, wtmp, wheld>>
build_config == <<locks, ressources, steps, sets, sets_raise, flags, required_arguments, self_arguments, arguments>>
worker_vars == <<sems, node, spc, sdep, sacq, srel, sstep, ssets, sret>>
orchestrator_vars == <<vpc, vidx, vret, bpc, bidx, bret>>
build_vars == <<build_config, worker_vars, orchestrator_vars>>
scope_vars == <<sc_variables, sc_base, sc_internal, sc_live, sc_last>>
exec_vars == <<ip_prog, ip_sem, ip_assert, ip_args, ip_kwargs, ip_st, ip_out>>
interp_vars == <<scope_vars, exec_vars>>
vars == <<resolver_vars, sem_vars, build_vars, interp_vars>>

(***************************************************************************)
(* Sequence helpers                                                        *)
(***************************************************************************)
Range(s) == {s[i] : i \in DOMAIN s}

\* the sequences of pairwise distinct elements of S of length at most n
DistinctSeqs(S, n) ==
    UNION {{s \in [1..k -> S] : \A i, j \in 1..k : i # j => s[i] # s[j]} : k \in 0..n}

\* list comprehension [x for x in s if x in keep]
RECURSIVE FilterIn(_, _)
FilterIn(s, keep) ==
    IF s = <<>> THEN <<>>
    ELSE IF Head(s) \in keep THEN <<Head(s)>> \o FilterIn(Tail(s), keep)
    ELSE FilterIn(Tail(s), keep)

\* 1-based position of x in s, 0 when absent
IndexOf(s, x) == IF x \in Range(s) THEN CHOOSE i \in DOMAIN s : s[i] = x /\ \A j \in 1..(i-1) : s[j] # x ELSE 0

\* list(reversed(s))
Reverse(s) == [i \in 1..Len(s) |-> s[Len(s) + 1 - i]]

(***************************************************************************)
(* Build.determine_subtargets                                              *)
(***************************************************************************)
\* the nested function resolve_required_subtargets with its closure
\* variables (visited_subtargets, subtargets, subtarget_parents) passed as st
RECURSIVE resolve_required_subtargets(_, _, _), resolve_requirements(_, _, _, _)
resolve_required_subtargets(subtarget, required_by, st) ==
    LET st1 == IF required_by # None
               THEN [st EXCEPT !.subtarget_parents[subtarget] = Append(@, required_by)]
               ELSE st
    IN  IF subtarget \in st1.visited_subtargets THEN st1
        ELSE LET st2 == [st1 EXCEPT !.visited_subtargets = @ \cup {subtarget}]
                 st3 == resolve_requirements(targets[subtarget], 1, subtarget, st2)
             IN  [st3 EXCEPT !.subtargets = Append(@, subtarget)]

\* the loop "for required_subtarget in self.targets[subtarget].get('subtargets', [])"
resolve_requirements(reqs, k, subtarget, st) ==
    IF k > Len(reqs) THEN st
    ELSE resolve_requirements(reqs, k + 1, subtarget,
                              resolve_required_subtargets(reqs[k], subtarget, st))

\* the loop "for target in targets" with the trailing "if target not in subtargets"
RECURSIVE resolve_targets(_, _, _)
resolve_targets(tgs, k, st) ==
    IF k > Len(tgs) THEN st
    ELSE LET st1 == resolve_required_subtargets(tgs[k], None, st)
             st2 == IF tgs[k] \notin Range(st1.subtargets)
                    THEN [st1 EXCEPT !.subtargets = Append(@, tgs[k])]
                    ELSE st1
         IN  resolve_targets(tgs, k + 1, st2)

\* the impact-set loop "while backlog": returns the grown from_targets list
RECURSIVE impact_parents(_, _, _, _), impact_set(_, _, _)
impact_parents(origins, k, from_list, backlog) ==
    IF k > Len(origins) THEN [from_targets |-> from_list, backlog |-> backlog]
    ELSE IF origins[k] \notin Range(from_list)
         THEN impact_parents(origins, k + 1, Append(from_list, origins[k]), Append(backlog, origins[k]))
         ELSE impact_parents(origins, k + 1, from_list, backlog)

impact_set(from_list, backlog, subtarget_parents) ==
    IF backlog = <<>> THEN from_list
    ELSE LET subtarget == backlog[Len(backlog)]
             rest      == SubSeq(backlog, 1, Len(backlog) - 1)
             origins   == IF subtarget \in DOMAIN subtarget_parents
                          THEN subtarget_parents[subtarget] ELSE <<>>
             step      == impact_parents(origins, 1, from_list, rest)
         IN  impact_set(step.from_targets, step.backlog, subtarget_parents)

\* a comparison with the two signs exchanged
rank_subtargets_flipped(left, right) ==
    IF right \in Range(targets[left]) THEN -1
    ELSE IF left \in Range(targets[right]) THEN 1
    ELSE 0

\* the comparison function of the sort and of the order check
rank_subtargets(left, right) ==
    IF right \in Range(targets[left]) THEN 1
    ELSE IF left \in Range(targets[right]) THEN -1
    ELSE 0

\* the "<" of the keys made by cmp_to_key(rank_subtargets)
key_lt(x, y) == rank_subtargets(x, y) < 0

\* list.sort on fewer than 64 elements: the length of the initial run ...
RECURSIVE count_run(_, _, _)
count_run(s, n, descending) ==
    IF n >= Len(s) THEN n
    ELSE IF descending
         THEN IF key_lt(s[n + 1], s[n]) THEN count_run(s, n + 1, descending) ELSE n
         ELSE IF key_lt(s[n + 1], s[n]) THEN n ELSE count_run(s, n + 1, descending)

\* ... the binary search of the insertion point of pivot in s[l..r-1] ...
RECURSIVE binary_search(_, _, _, _)
binary_search(s, pivot, l, r) ==
    IF l >= r THEN l
    ELSE LET p == l + ((r - l) \div 2)
         IN  IF key_lt(pivot, s[p]) THEN binary_search(s, pivot, l, p)
             ELSE binary_search(s, pivot, p + 1, r)

\* ... and the binary insertion of the elements behind the run
RECURSIVE binarysort(_, _)
binarysort(s, start) ==
    IF start > Len(s) THEN s
    ELSE LET pivot == s[start]
             l     == binary_search(s, pivot, 1, start)
             moved == SubSeq(s, 1, l - 1) \o <<pivot>> \o SubSeq(s, l, start - 1)
                      \o SubSeq(s, start + 1, Len(s))
         IN  binarysort(moved, start + 1)

\* subtargets.sort(key=cmp_to_key(rank_subtargets))
sort_subtargets(s) ==
    IF Len(s) < 2 THEN s
    ELSE LET descending == key_lt(s[2], s[1])
             n          == count_run(s, 2, descending)
             run        == IF descending
                           THEN Reverse(SubSeq(s, 1, n)) \o SubSeq(s, n + 1, Len(s))
                           ELSE s
         IN  binarysort(run, n + 1)

\* the order check "for i in range(num_subtargets): for j in range(i, num_subtargets)":
\* the first event of the double loop in iteration order, pairs numbered from 1
RECURSIVE check_order(_, _, _, _)
check_order(s, num_subtargets, i, j) ==
    IF i > num_subtargets THEN [kind |-> "ok", left |-> None, right |-> None]
    ELSE IF j > num_subtargets THEN check_order(s, num_subtargets, i + 1, i + 1)
    ELSE IF i > Len(s) \/ j > Len(s) THEN [kind |-> "IndexError", left |-> None, right |-> None]
    ELSE IF rank_subtargets(s[i], s[j]) > 0
         THEN [kind |-> "BuildError", left |-> s[i], right |-> s[j]]
    ELSE check_order(s, num_subtargets, i, j + 1)

NoParents == [n \in Names |-> <<>>]

\* a skip-list that is not seeded into the visited set
visited_without_skips(skip_targets) == {}

\* visited_subtargets = set(skip_targets)
initial_visited(skip_targets) == Range(skip_targets)

\* the traversal from the requested targets: subtargets and subtarget_parents
resolved_subtargets(tgs, skip_targets) ==
    resolve_targets(tgs, 1, [visited_subtargets |-> initial_visited(skip_targets),
                             subtargets         |-> <<>>,
                             subtarget_parents  |-> NoParents])

\* the list "subtargets" as it enters the sort: filtered to the impact set
\* when a from-list is given
scheduled_subtargets(tgs, skip_targets, from_targets) ==
    LET st     == resolved_subtargets(tgs, skip_targets)
        impact == impact_set(from_targets, from_targets, st.subtarget_parents)
    IN  IF from_targets # <<>>
        THEN FilterIn(st.subtargets, Range(impact))
        ELSE st.subtargets

\* a validation that looks at the requested targets only
unknown_names_of_targets(tgs, skip_targets, from_targets) ==
    {name \in Range(tgs) : name \notin DOMAIN targets}

\* the names ensure_name_in_list refuses: "for target in targets", "for
\* subtarget in skip_targets", "for subtarget in from_targets"
unknown_names(tgs, skip_targets, from_targets) ==
    {name \in Range(tgs) \cup Range(skip_targets) \cup Range(from_targets) :
        name \notin DOMAIN targets}

determine_subtargets(tgs, skip_targets, from_targets) ==
    LET st             == resolved_subtargets(tgs, skip_targets)
        num_subtargets == Len(st.subtargets)
        sorted         == sort_subtargets(scheduled_subtargets(tgs, skip_targets, from_targets))
        check          == check_order(sorted, num_subtargets, 1, 1)
    IN  IF unknown_names(tgs, skip_targets, from_targets) # {}
        THEN [kind |-> "UnknownName", subtargets |-> <<>>, parents |-> NoParents,
              left |-> None, right |-> None]
        ELSE IF check.kind = "ok"
        THEN [kind |-> "return", subtargets |-> sorted,
              parents |-> [n \in Names |-> IF n \in Range(sorted) THEN st.subtarget_parents[n] ELSE <<>>],
              left |-> None, right |-> None]
        ELSE [kind |-> check.kind, subtargets |-> <<>>, parents |-> NoParents,
              left |-> check.left, right |-> check.right]

(***************************************************************************)
(* The resolver as a state machine: a loaded configuration, then calls      *)
(***************************************************************************)
\* the number of requirements the target table g declares for the targets in S
RECURSIVE NumRequires(_, _)
NumRequires(g, S) ==
    IF S = {} THEN 0
    ELSE LET n == CHOOSE n \in S : TRUE
         IN  Len(g[n]) + NumRequires(g, S \ {n})

\* the loaded configurations: every target requires a list of distinct targets
Configs ==
    {g \in [Names -> DistinctSeqs(Names, Cardinality(Names))] :
        NumRequires(g, Names) <= MaxRequires}

NoCall == [targets |-> <<>>, skip_targets |-> <<>>, from_targets |-> <<>>]
NoResult == [kind |-> "none", subtargets |-> <<>>, parents |-> NoParents,
             left |-> None, right |-> None]

(***************************************************************************)
(* utils.Scope: a local mapping and a base                                 *)
(***************************************************************************)
\* the identifiers and the values bound in the scopes
Keys == {"x", "y"}
Values == {1, 2}

\* the Scope objects, numbered; a chain has at most NumScopes of them and a
\* build BuildScopes
ScopeIds == 1..(IF NumScopes > BuildScopes THEN NumScopes ELSE BuildScopes)
\* base=None
NoBase == 0

\* a key without an entry in a mapping
Absent == 0
EmptyMapping == [k \in Keys |-> Absent]

\* "key in self.__variables"
in_variables(s, key) == sc_variables[s][key] # Absent

\* Scope.__len__: len(self.__variables), which counts the entries under
\* Keys and those under the keys build_variant and build write (_name, ...)
scope_len(s) ==
    Cardinality({k \in Keys : in_variables(s, k)}) + (IF sc_internal[s] THEN 1 ELSE 0)

\* a test that is true for every base that is not None
base_is_not_none(s) == sc_base[s] # NoBase

\* "if self.__base:": a base that is None is false, and so is a Scope of
\* length 0, since the truth of an object with __len__ is len() != 0
base_is_true(s) == sc_base[s] # NoBase /\ scope_len(sc_base[s]) > 0

Found(value) == [kind |-> "value", value |-> value]
AttributeError == [kind |-> "AttributeError", value |-> Absent]

\* Scope.__getitem__ for a string key other than "_scope"
RECURSIVE getitem(_, _)
getitem(s, key) ==
    IF in_variables(s, key) THEN Found(sc_variables[s][key])
    ELSE IF base_is_true(s) THEN getitem(sc_base[s], key)
    ELSE AttributeError

\* Scope.__contains__ for a key other than "_scope"
RECURSIVE contains(_, _)
contains(s, key) ==
    IF in_variables(s, key) THEN TRUE
    ELSE IF base_is_true(s) THEN contains(sc_base[s], key)
    ELSE FALSE

\* Scope.get(key, fallback)
RECURSIVE scope_get(_, _, _)
scope_get(s, key, fallback) ==
    IF in_variables(s, key) THEN sc_variables[s][key]
    ELSE IF base_is_true(s) THEN scope_get(sc_base[s], key, fallback)
    ELSE fallback

\* the nearest scope of the chain of s, s included, that binds key; 0 if none
RECURSIVE binding_scope(_, _)
binding_scope(s, key) ==
    IF s = NoBase THEN NoBase
    ELSE IF in_variables(s, key) THEN s
    ELSE binding_scope(sc_base[s], key)

\* an assignment that writes where the key is bound already
bound_scope_or_self(s, key) ==
    IF binding_scope(s, key) # NoBase THEN binding_scope(s, key) ELSE s

\* the scope whose mapping "self.__variables[key] = value" writes
setitem_scope(s, key) == s

\* expressions: a literal value, or a name that is looked up in a scope
Literal(value) == [lit |-> value, name |-> "none"]
Name(key) == [lit |-> Absent, name |-> key]
Expressions == {Literal(v) : v \in Values} \cup {Name(k) : k \in Keys}

\* utils.execute(value, scope) for such an expression: eval(value, {}, scope)
\* reads a name by scope[name]
evaluate(expr, s) == IF expr.name = "none" THEN Found(expr.lit) ELSE getitem(s, expr.name)

NoLookup == [op |-> "none", scope |-> NoBase, key |-> "none", expr |-> Literal(Absent),
             outcome |-> AttributeError]
Operation(op, s, key, expr, outcome) ==
    [op |-> op, scope |-> s, key |-> key, expr |-> expr, outcome |-> outcome]

True == 1
False == 0

(***************************************************************************)
(* The values and outcomes of utils.execute                                *)
(***************************************************************************)
\* the names a program binds
IKeys == {"x", "y", "value", "exception"}

\* values: None, integers, lists (by their length) and exception objects (by
\* their class, a ReturnException with the integer it carries)
NoneValue == [type |-> "none", v |-> 0, kind |-> "none"]
AbsentValue == [type |-> "absent", v |-> 0, kind |-> "none"]
IntValue(n) == [type |-> "int", v |-> n, kind |-> "none"]
ListValue(n) == [type |-> "list", v |-> n, kind |-> "none"]
FunctionValue(i) == [type |-> "function", v |-> i, kind |-> "none"]
ErrorValue(kind, n) == [type |-> "error", v |-> n, kind |-> kind]

\* how an evaluation ends: with a value, by an exception, or never (blocked
\* in Semaphore.acquire)
Returns(value) == [how |-> "value", val |-> value]
Raises(error) == [how |-> "raise", val |-> error]
Blocks == [how |-> "blocked", val |-> NoneValue]
NotRun == [how |-> "none", val |-> NoneValue]

\* nothing was evaluated
ExecIdle ==
    /\ ip_prog = <<>>
    /\ ip_sem = [class |-> "utils", max |-> 0, held0 |-> 0]
    /\ ip_assert = TRUE
    /\ ip_args = <<>>
    /\ ip_kwargs = [k \in IKeys |-> 0]
    /\ ip_st = [scopes |-> <<>>, held |-> 0, log |-> <<>>]
    /\ ip_out = NotRun

\* no Scope object exists
InterpIdle ==
    /\ ExecIdle
    /\ sc_variables = [s \in ScopeIds |-> EmptyMapping]
    /\ sc_base = [s \in ScopeIds |-> NoBase]
    /\ sc_internal = [s \in ScopeIds |-> FALSE]
    /\ sc_live = {}
    /\ sc_last = NoLookup

\* scope[key] = value
SetItem(s, key, value) ==
    /\ s \in sc_live
    /\ sc_variables' = [sc_variables EXCEPT ![setitem_scope(s, key)][key] = value]
    /\ sc_last' = Operation("set", s, key, Literal(value), Found(value))
    /\ UNCHANGED <<sc_base, sc_internal, sc_live>>
    /\ UNCHANGED <<resolver_vars, sem_vars, build_vars, exec_vars>>

\* scope[key]
GetItem(s, key) ==
    /\ s \in sc_live
    /\ sc_last' = Operation("getitem", s, key, Name(key), getitem(s, key))
    /\ UNCHANGED <<sc_variables, sc_base, sc_internal, sc_live>>
    /\ UNCHANGED <<resolver_vars, sem_vars, build_vars, exec_vars>>

\* key in scope
Contains(s, key) ==
    /\ s \in sc_live
    /\ sc_last' = Operation("contains", s, key, Name(key),
                             Found(IF contains(s, key) THEN True ELSE False))
    /\ UNCHANGED <<sc_variables, sc_base, sc_internal, sc_live>>
    /\ UNCHANGED <<resolver_vars, sem_vars, build_vars, exec_vars>>

\* scope.get(key), the fallback None
Get(s, key) ==
    /\ s \in sc_live
    /\ sc_last' = Operation("get", s, key, Name(key), Found(scope_get(s, key, Absent)))
    /\ UNCHANGED <<sc_variables, sc_base, sc_internal, sc_live>>
    /\ UNCHANGED <<resolver_vars, sem_vars, build_vars, exec_vars>>

\* "scope" in build_subtarget: the variant scope, the base of scope[subtarget]
variant_scope(n) == sc_base[n]

\* a sets loop that binds in the scope of the subtarget
own_scope(n) == n

\* the scope "scope[variable] = ..." of the sets loop writes
sets_scope(n) == variant_scope(n)

\* one binding of the loop over "sets" of the subtarget with the node scope n:
\* scope[variable] = utils.execute(value, scope[subtarget]); a name without a
\* binding ends the loop by an error
SetsBinding(n, variable, value) ==
    /\ n \in sc_live
    /\ variant_scope(n) # NoBase /\ sc_base[variant_scope(n)] # NoBase
    /\ LET outcome == evaluate(value, n)
       IN  /\ sc_last' = Operation("sets", n, variable, value, outcome)
           /\ IF outcome.kind = "value"
              THEN sc_variables' = [sc_variables EXCEPT ![sets_scope(n)][variable] = outcome.value]
              ELSE UNCHANGED sc_variables
    /\ UNCHANGED <<sc_base, sc_internal, sc_live>>
    /\ UNCHANGED <<resolver_vars, sem_vars, build_vars, exec_vars>>

(***************************************************************************)
(* The interpreter: utils.execute and the nodes Set, Return, Raise, Try,   *)
(* WithRessource and Function                                              *)
(***************************************************************************)
\* a Scope of the interpreter: its mapping, its base (0: none), and the
\* entries "args" and "kwargs" a Function call gives its scope
NoKwargs == [k \in IKeys |-> 0]
NewScope(base) ==
    [vars |-> [k \in IKeys |-> AbsentValue], base |-> base,
     called |-> FALSE, args |-> <<>>, kwargs |-> NoKwargs]

\* Scope.__len__ of the scope s
i_len(scopes, s) ==
    Cardinality({k \in IKeys : scopes[s].vars[k] # AbsentValue})
        + (IF scopes[s].called THEN 2 ELSE 0)

\* Scope.__getitem__: the local mapping, then the base if it is true
RECURSIVE i_getitem(_, _, _)
i_getitem(scopes, s, key) ==
    IF scopes[s].vars[key] # AbsentValue THEN scopes[s].vars[key]
    ELSE IF scopes[s].base # 0 /\ i_len(scopes, scopes[s].base) > 0
         THEN i_getitem(scopes, scopes[s].base, key)
    ELSE AbsentValue

\* the nodes of a program, in a table; the fields a kind does not use keep
\* the values of Node
Node ==
    [kind |-> "lit", key |-> "none", n |-> 0, kids |-> <<>>, body |-> 0, fin |-> 0,
     has_except |-> FALSE, except |-> {}, classes |-> TRUE, as |-> "exception",
     params |-> <<>>]
Lit(n) == [Node EXCEPT !.n = n]
NameOf(key) == [Node EXCEPT !.kind = "name", !.key = key]
SetNode(key, value) == [Node EXCEPT !.kind = "set", !.key = key, !.body = value]
ReturnNode(value) == [Node EXCEPT !.kind = "return", !.body = value]
RaiseNode(kind) == [Node EXCEPT !.kind = "raise", !.key = kind]
Sequence(kids) == [Node EXCEPT !.kind = "seq", !.kids = kids]
TryNode(body, has_except, except, classes, fin) ==
    [Node EXCEPT !.kind = "try", !.body = body, !.has_except = has_except,
                 !.except = except, !.classes = classes, !.fin = fin]
WithNode(count, body) == [Node EXCEPT !.kind = "with", !.n = count, !.body = body]
FunctionNode(params, body) == [Node EXCEPT !.kind = "function", !.params = params, !.body = body]

\* isinstance(e, exception_type) for the classes of the model
is_instance(kind, exception_type) == exception_type = kind \/ exception_type = "Exception"

\* a Try whose result is the value of the try body or of the handler
result_before_finally(handled, finally) == [out |-> handled.out, st |-> finally.st]

\* "result = execute(self.finally_, scope)": the value of the finally body
\* replaces the result of the Try
result_after_finally(handled, finally) == finally

\* a sequence whose evaluation goes on after a statement raised
never_stops(out) == FALSE

\* the evaluation of a list ends at the first element that does not return
stops(out) == out.how # "value"

\* Semaphore.release(count): the units held afterwards
release_count(held, count) == held - count

\* the state an evaluation reads and writes: the scopes, the units taken
\* from the semaphore, and the log of the evaluated nodes (node, scope, units
\* held at that moment)
Logged(st, i, s) == [st EXCEPT !.log = Append(@, <<i, s, st.held>>)]

\* a pair of an outcome and a state
Pair(out, st) == [out |-> out, st |-> st]

\* utils.execute(node i, scope s) in the state st
RECURSIVE exec(_, _, _), exec_seq(_, _, _, _, _)
exec(i, s, st0) ==
    LET nd   == ip_prog[i]
        st   == Logged(st0, i, s)
    IN  CASE nd.kind = "lit" -> Pair(Returns(IntValue(nd.n)), st)
          [] nd.kind = "name" ->
               \* eval(name, {}, scope): an AttributeError of the Scope becomes a BuildError
               LET value == i_getitem(st.scopes, s, nd.key)
               IN  IF value = AbsentValue
                   THEN Pair(Raises(ErrorValue("BuildError", 0)), st)
                   ELSE Pair(Returns(value), st)
          [] nd.kind = "set" ->
               LET r == exec(nd.body, s, st)
               IN  IF r.out.how # "value" THEN r
                   ELSE Pair(Returns(NoneValue),
                             [r.st EXCEPT !.scopes[s].vars[nd.key] = r.out.val])
          [] nd.kind = "return" ->
               LET r == exec(nd.body, s, st)
               IN  IF r.out.how # "value" THEN r
                   ELSE Pair(Raises(ErrorValue("ReturnException", r.out.val.v)), r.st)
          [] nd.kind = "raise" -> Pair(Raises(ErrorValue(nd.key, 0)), st)
          [] nd.kind = "seq" -> exec_seq(nd.kids, 1, s, st, 0)
          [] nd.kind = "try" ->
               LET r1      == exec(nd.body, s, st)
                   e       == r1.out.val
                   \* isinstance(e, exception_type) with an exception_type that
                   \* is not a class (a name, as a configuration file gives it)
                   no_type == r1.out.how = "raise" /\ nd.has_except /\ ~nd.classes
                   caught  == /\ r1.out.how = "raise"
                              /\ ~nd.has_except \/ \E t \in nd.except : is_instance(e.kind, t)
                   nested  == Len(r1.st.scopes) + 1
                   st2     == [r1.st EXCEPT !.scopes = Append(@,
                                  [NewScope(s) EXCEPT !.vars[nd.as] = e])]
                   handled == IF no_type THEN Pair(Raises(ErrorValue("TypeError", 0)), r1.st)
                              ELSE IF caught THEN exec(nd.body, nested, st2)
                              ELSE r1
                   rf      == exec(nd.fin, s, handled.st)
               IN  IF nd.fin = 0 \/ handled.out.how = "blocked" THEN handled
                   ELSE IF rf.out.how # "value" THEN rf
                   ELSE IF handled.out.how = "raise" THEN Pair(handled.out, rf.st)
                   ELSE result_after_finally(handled, rf)
          [] nd.kind = "with" ->
               LET count   == nd.n
                   taken   == IF ip_sem.class = "utils" THEN count ELSE 1
                   full    == IF ip_sem.class = "utils"
                              THEN ip_sem.max - st.held < count
                              ELSE ip_sem.max - st.held < 1
                   r       == exec(nd.body, s, [st EXCEPT !.held = @ + taken])
               IN  IF ip_assert /\ ip_sem.class # "threading"
                   THEN Pair(Raises(ErrorValue("AssertionError", 0)), st)
                   ELSE IF full THEN Pair(Blocks, st)
                   ELSE IF r.out.how = "blocked" THEN r
                   ELSE Pair(r.out, [r.st EXCEPT !.held = release_count(@, count)])
          [] nd.kind = "function" -> Pair(Returns(FunctionValue(i)), st)

\* the list branch of execute: the elements in order; the result is the list
\* of their values
exec_seq(kids, k, s, st, done) ==
    IF k > Len(kids) THEN Pair(Returns(ListValue(done)), st)
    ELSE LET r == exec(kids[k], s, st)
         IN  IF stops(r.out) THEN r
             ELSE exec_seq(kids, k + 1, s, r.st, done + 1)

\* the loop "for argument in self.arguments" of a call: b.args and b.kwargs
\* are what is left of the call's arguments, b.vars the bindings made,
\* b.error whether args[0] was read from an empty tuple
RECURSIVE bind_arguments(_, _, _)
bind_arguments(params, k, b) ==
    IF k > Len(params) \/ b.error THEN b
    ELSE LET argument == params[k]
         IN  IF b.kwargs[argument] # 0
             THEN bind_arguments(params, k + 1,
                      [b EXCEPT !.vars[argument] = IntValue(b.kwargs[argument]),
                                !.kwargs[argument] = 0])
             ELSE IF b.args = <<>> THEN [b EXCEPT !.error = TRUE]
             ELSE bind_arguments(params, k + 1,
                      [b EXCEPT !.vars[argument] = IntValue(Head(b.args)),
                                !.args = Tail(b.args)])

\* what is bound under "args" when no argument is declared: the call's tuple
args_without_declared(args) == args

\* the scope of a call of the function node f defined in the scope s:
\* Scope({}, scope) with the declared arguments, "value", "args" and "kwargs"
function_scope(f, s, args, kwargs) ==
    LET b0 == [vars |-> [k \in IKeys |-> AbsentValue], args |-> args,
               kwargs |-> kwargs, error |-> FALSE]
        b  == bind_arguments(ip_prog[f].params, 1, b0)
        undeclared == ip_prog[f].params = <<>> /\ args # <<>>
    IN  [vars   |-> IF undeclared THEN [b.vars EXCEPT !["value"] = IntValue(args[1])]
                    ELSE b.vars,
         base   |-> s,
         called |-> TRUE,
         args   |-> IF undeclared THEN args_without_declared(b.args) ELSE b.args,
         kwargs |-> b.kwargs,
         error  |-> b.error]

\* a call result(*args, **kwargs) of the closure Function.__call__ returned
call_function(f, s, args, kwargs, st) ==
    LET fs     == function_scope(f, s, args, kwargs)
        callee == Len(st.scopes) + 1
        st1    == [st EXCEPT !.scopes = Append(@,
                      [vars |-> fs.vars, base |-> fs.base, called |-> fs.called,
                       args |-> fs.args, kwargs |-> fs.kwargs])]
        r      == exec(ip_prog[f].body, callee, st1)
    IN  IF fs.error THEN Pair(Raises(ErrorValue("IndexError", 0)), st)
        ELSE IF r.out.how = "raise" /\ r.out.val.kind = "ReturnException"
             THEN Pair(Returns(IntValue(r.out.val.v)), r.st)
        ELSE r

(***************************************************************************)
(* utils.Semaphore, used by NumWorkers threads                              *)
(***************************************************************************)
Workers == 1..NumWorkers
Amounts == 1..MaxAmount

\* Semaphore.__init__ and threads that are in no call
SemIdle ==
    /\ sem_count = 0
    /\ sem_max_count = SemCapacity
    /\ sem_lock = 0
    /\ sem_waiters = <<>>
    /\ wpc = [w \in Workers |-> "idle"]
    /\ wamount = [w \in Workers |-> 0]
    /\ wtmp = [w \in Workers |-> 0]
    /\ wheld = [w \in Workers |-> 0]

\* a loop condition that admits one unit too many
must_wait_off_by_one(count) == sem_max_count - sem_count < count - 1

\* the loop condition "self._max_count - self._count < count"
must_wait(count) == sem_max_count - sem_count < count

\* an increment that ignores the requested amount
count_plus_one(loaded, count) == loaded + 1

\* the right-hand side of "self._count += count"
count_plus(loaded, count) == loaded + count

\* the right-hand side of "self._count -= count"
count_minus(loaded, count) == loaded - count

\* a thread calls acquire(count)
AcquireCall(w, count) ==
    /\ wpc[w] = "idle"
    /\ wheld[w] = 0
    /\ wpc' = [wpc EXCEPT ![w] = "acq_lock"]
    /\ wamount' = [wamount EXCEPT ![w] = count]
    /\ UNCHANGED <<sem_count, sem_max_count, sem_lock, sem_waiters, wtmp, wheld>>
    /\ UNCHANGED <<resolver_vars, build_vars, interp_vars>>

\* "with self._lock:" of acquire, and the re-acquisition of the lock by which
\* a notified thread returns from wait()
AcquireLock(w) ==
    /\ wpc[w] \in {"acq_lock", "acq_notified"}
    /\ sem_lock = 0
    /\ sem_lock' = w
    /\ wpc' = [wpc EXCEPT ![w] = "acq_check"]
    /\ UNCHANGED <<sem_count, sem_max_count, sem_waiters, wamount, wtmp, wheld>>
    /\ UNCHANGED <<resolver_vars, build_vars, interp_vars>>

\* "while self._max_count - self._count < count: self._lock.wait()":
\* wait() queues the thread and gives the lock up
AcquireCheck(w) ==
    /\ wpc[w] = "acq_check"
    /\ sem_lock = w
    /\ IF must_wait(wamount[w])
       THEN /\ sem_waiters' = Append(sem_waiters, w)
            /\ sem_lock' = 0
            /\ wpc' = [wpc EXCEPT ![w] = "acq_wait"]
       ELSE /\ wpc' = [wpc EXCEPT ![w] = "acq_load"]
            /\ UNCHANGED <<sem_waiters, sem_lock>>
    /\ UNCHANGED <<sem_count, sem_max_count, wamount, wtmp, wheld>>
    /\ UNCHANGED <<resolver_vars, build_vars, interp_vars>>

\* "self._count += count": the load ...
AcquireLoad(w) ==
    /\ wpc[w] = "acq_load"
    /\ sem_lock = w
    /\ wtmp' = [wtmp EXCEPT ![w] = sem_count]
    /\ wpc' = [wpc EXCEPT ![w] = "acq_store"]
    /\ UNCHANGED <<sem_count, sem_max_count, sem_lock, sem_waiters, wamount, wheld>>
    /\ UNCHANGED <<resolver_vars, build_vars, interp_vars>>

\* ... the store, and the end of the with block and of the call, with
\* which the call's locals are gone
AcquireStore(w) ==
    /\ wpc[w] = "acq_store"
    /\ sem_lock = w
    /\ sem_count' = count_plus(wtmp[w], wamount[w])
    /\ sem_lock' = 0
    /\ wheld' = [wheld EXCEPT ![w] = wamount[w]]
    /\ wpc' = [wpc EXCEPT ![w] = "idle"]
    /\ wamount' = [wamount EXCEPT ![w] = 0]
    /\ wtmp' = [wtmp EXCEPT ![w] = 0]
    /\ UNCHANGED <<sem_max_count, sem_waiters>>
    /\ UNCHANGED <<resolver_vars, build_vars, interp_vars>>

\* a thread releases what it acquired
ReleaseCall(w) ==
    /\ wpc[w] = "idle"
    /\ wheld[w] > 0
    /\ wpc' = [wpc EXCEPT ![w] = "rel_lock"]
    /\ wamount' = [wamount EXCEPT ![w] = wheld[w]]
    /\ wheld' = [wheld EXCEPT ![w] = 0]
    /\ UNCHANGED <<sem_count, sem_max_count, sem_lock, sem_waiters, wtmp>>
    /\ UNCHANGED <<resolver_vars, build_vars, interp_vars>>

\* a thread calls release(count) without holding anything
ReleaseCallUnheld(w, count) ==
    /\ wpc[w] = "idle"
    /\ wheld[w] = 0
    /\ sem_count >= 0
    /\ wpc' = [wpc EXCEPT ![w] = "rel_lock"]
    /\ wamount' = [wamount EXCEPT ![w] = count]
    /\ UNCHANGED <<sem_count, sem_max_count, sem_lock, sem_waiters, wtmp, wheld>>
    /\ UNCHANGED <<resolver_vars, build_vars, interp_vars>>

\* "with self._lock:" of release
ReleaseLock(w) ==
    /\ wpc[w] = "rel_lock"
    /\ sem_lock = 0
    /\ sem_lock' = w
    /\ wpc' = [wpc EXCEPT ![w] = "rel_load"]
    /\ UNCHANGED <<sem_count, sem_max_count, sem_waiters, wamount, wtmp, wheld>>
    /\ UNCHANGED <<resolver_vars, build_vars, interp_vars>>

\* "self._count -= count": the load ...
ReleaseLoad(w) ==
    /\ wpc[w] = "rel_load"
    /\ sem_lock = w
    /\ wtmp' = [wtmp EXCEPT ![w] = sem_count]
    /\ wpc' = [wpc EXCEPT ![w] = "rel_store"]
    /\ UNCHANGED <<sem_count, sem_max_count, sem_lock, sem_waiters, wamount, wheld>>
    /\ UNCHANGED <<resolver_vars, build_vars, interp_vars>>

\* ... and the store
ReleaseStore(w) ==
    /\ wpc[w] = "rel_store"
    /\ sem_lock = w
    /\ sem_count' = count_minus(wtmp[w], wamount[w])
    /\ wpc' = [wpc EXCEPT ![w] = "rel_notify"]
    /\ UNCHANGED <<sem_max_count, sem_lock, sem_waiters, wamount, wtmp, wheld>>
    /\ UNCHANGED <<resolver_vars, build_vars, interp_vars>>

\* "self._lock.notify()" wakes the oldest waiter, if any; end of the with
\* block and of the call
ReleaseNotify(w) ==
    /\ wpc[w] = "rel_notify"
    /\ sem_lock = w
    /\ IF sem_waiters # <<>>
       THEN /\ wpc' = [wpc EXCEPT ![w] = "idle", ![Head(sem_waiters)] = "acq_notified"]
            /\ sem_waiters' = Tail(sem_waiters)
       ELSE /\ wpc' = [wpc EXCEPT ![w] = "idle"]
            /\ UNCHANGED sem_waiters
    /\ sem_lock' = 0
    /\ wamount' = [wamount EXCEPT ![w] = 0]
    /\ wtmp' = [wtmp EXCEPT ![w] = 0]
    /\ UNCHANGED <<sem_count, sem_max_count, wheld>>
    /\ UNCHANGED <<resolver_vars, build_vars, interp_vars>>

(***************************************************************************)
(* Build.build, build_variants, build_variant and build_subtarget           *)
(***************************************************************************)
Variants == {"v1", "v2"}
VariantOrder == <<"v1", "v2">>
ResNames == {"R", "S"}

\* the scope a semaphore is stored in: a variant scope or the scope of build()
Global == "global"
SemIds == ResNames \X (Variants \cup {Global})

NoSemaphore == [exists |-> FALSE, count |-> 0, max_count |-> 0, waiters |-> <<>>]
NoNode == [exists |-> FALSE, finished |-> FALSE, success |-> "None", exception |-> FALSE,
           duration |-> FALSE]

\* "sets" whose values all evaluate without an error
NoSetsRaise == [n \in Names |-> [error |-> "none", written |-> FALSE]]

\* a state in which no build is in progress
BuildIdle ==
    /\ locks = [n \in Names |-> <<>>]
    /\ required_arguments = [n \in Names |-> <<>>]
    /\ sets_raise = NoSetsRaise
    /\ self_arguments = {}
    /\ arguments = [form |-> "None", value |-> "absent"]
    /\ ressources = [r \in ResNames |-> [per_variant |-> FALSE, count |-> 1]]
    /\ steps = [n \in Names |-> 1]
    /\ sets = [n \in Names |-> FALSE]
    /\ flags = [variants_in_parallel |-> FALSE, subtargets_in_parallel |-> FALSE, fail_early |-> TRUE]
    /\ sems = [i \in SemIds |-> NoSemaphore]
    /\ node = [v \in Variants |-> [n \in Names |-> NoNode]]
    /\ spc = [v \in Variants |-> [n \in Names |-> "unsubmitted"]]
    /\ sdep = [v \in Variants |-> [n \in Names |-> 0]]
    /\ sacq = [v \in Variants |-> [n \in Names |-> 0]]
    /\ srel = [v \in Variants |-> [n \in Names |-> 0]]
    /\ sstep = [v \in Variants |-> [n \in Names |-> 0]]
    /\ ssets = [v \in Variants |-> [n \in Names |-> FALSE]]
    /\ sret = [v \in Variants |-> [n \in Names |-> "none"]]
    /\ vpc = [v \in Variants |-> "unsubmitted"]
    /\ vidx = [v \in Variants |-> 0]
    /\ vret = [v \in Variants |-> "none"]
    /\ bpc = "idle"
    /\ bidx = 0
    /\ bret = "none"

\* the schedule of the build: the keys of the dictionary determine_subtargets returned
Schedule == result.subtargets

\* Scope lookup scope[subtarget][semaphore_name]: the subtarget's scope has no
\* such key, its base is the variant scope, whose base is the scope of build()
semaphore_of(v, name) ==
    IF sems[<<name, v>>].exists THEN <<name, v>> ELSE <<name, Global>>

\* the semaphores build() creates for one ressource:
\* one in the scope of build(), or one in each variant scope
created_semaphores(r) ==
    IF ressources[r].per_variant THEN {<<r, Global>>} ELSE {<<r, v>> : v \in Variants}

\* Semaphore.acquire as one critical section of its lock: admitted, or queued in wait()
sem_admits(s, count) == s.max_count - s.count >= count
sem_acquired(s, count) == [s EXCEPT !.count = @ + count]
sem_waiting(s, w) == [s EXCEPT !.waiters = Append(@, w)]

\* Semaphore.release as one critical section: the decrement, and notify()
\* taking the oldest waiter off the queue
sem_released(s, count) ==
    [s EXCEPT !.count = @ - count,
              !.waiters = IF @ = <<>> THEN <<>> ELSE Tail(@)]

\* the units of the semaphore i the worker (v, n) holds: those of its locks
\* srel+1 .. sacq, which it has acquired and not released
HeldBy(v, n, i) ==
    LET ls == locks[n]
        sum[k \in 0..Len(ls)] ==
            IF k = 0 THEN 0
            ELSE sum[k - 1] +
                 (IF semaphore_of(v, ls[k].name) = i /\ srel[v][n] < k /\ k <= sacq[v][n]
                  THEN ls[k].count ELSE 0)
    IN  sum[Len(ls)]

\* ---- build_subtarget ----------------------------------------------------

\* a test that takes a failed dependency for a finished one
is_finished_or_failed(v, dependency) ==
    node[v][dependency].finished \/ node[v][dependency].success = "False"

\* a test that takes every dependency for finished
is_finished_unchecked(v, dependency) == TRUE

\* scope[dependency]["_finished"]
is_finished(v, dependency) == node[v][dependency].finished

\* scope[dependency]["_success"] is False
has_failed(v, dependency) == node[v][dependency].success = "False"

\* the dependency loop: "while not scope[dependency]['_finished']"
WaitDependencies(v, n) ==
    /\ spc[v][n] = "deps"
    /\ LET deps == targets[n]
           k    == sdep[v][n]
       IN  IF k > Len(deps)
           THEN /\ spc' = [spc EXCEPT ![v][n] = "locks"]
                /\ UNCHANGED <<sdep, sret>>
           ELSE IF ~node[v][deps[k]].exists
           THEN \* scope[dependency] is None: the subscript raises TypeError
                /\ spc' = [spc EXCEPT ![v][n] = "raised"]
                /\ sret' = [sret EXCEPT ![v][n] = "Exception"]
                /\ UNCHANGED sdep
           ELSE IF is_finished(v, deps[k])
           THEN /\ sdep' = [sdep EXCEPT ![v][n] = k + 1]
                /\ UNCHANGED <<spc, sret>>
           ELSE \* not finished: return if it failed, else sleep and poll again
                /\ has_failed(v, deps[k])
                /\ spc' = [spc EXCEPT ![v][n] = "returned"]
                /\ sret' = [sret EXCEPT ![v][n] = "falsy"]
                /\ UNCHANGED sdep
    /\ UNCHANGED <<sems, node, sacq, srel, sstep, ssets>>
    /\ UNCHANGED <<resolver_vars, sem_vars, build_config, orchestrator_vars, interp_vars>>

\* a worker that takes locks while it is still in its dependency loop
at_acquire_or_waiting(v, n) == spc[v][n] \in {"deps", "locks", "lock_notified"}

\* the worker is at the acquire loop, which follows the dependency loop
at_acquire(v, n) == spc[v][n] \in {"locks", "lock_notified"}

\* the acquire loop: "semaphore.acquire(semaphore_count)" for each lock,
\* entered by a new call or by a thread that notify() woke from wait()
AcquireLocks(v, n) ==
    /\ at_acquire(v, n)
    /\ LET ls == locks[n]
           k  == sacq[v][n] + 1
       IN  IF k > Len(ls)
           THEN /\ spc' = [spc EXCEPT ![v][n] = "steps"]
                /\ UNCHANGED <<sems, sacq>>
           ELSE LET i == semaphore_of(v, ls[k].name)
                IN  IF sem_admits(sems[i], ls[k].count)
                    THEN /\ sems' = [sems EXCEPT ![i] = sem_acquired(@, ls[k].count)]
                         /\ sacq' = [sacq EXCEPT ![v][n] = k]
                         /\ spc' = [spc EXCEPT ![v][n] = "locks"]
                    ELSE /\ sems' = [sems EXCEPT ![i] = sem_waiting(@, <<v, n>>)]
                         /\ spc' = [spc EXCEPT ![v][n] = "lock_wait"]
                         /\ UNCHANGED sacq
    /\ UNCHANGED <<node, sdep, srel, sstep, ssets, sret>>
    /\ UNCHANGED <<resolver_vars, sem_vars, build_config, orchestrator_vars, interp_vars>>

\* a failure record that also marks the node finished
failed_and_finished_node(nd) ==
    [nd EXCEPT !.success = "False", !.finished = TRUE, !.exception = TRUE, !.duration = TRUE]

\* the except clause: "_success = False; _exception = e; _duration = ..."
failed_node(nd) == [nd EXCEPT !.success = "False", !.exception = TRUE, !.duration = TRUE]

\* steps that write the "sets" bindings of their subtarget as they run
published_with_steps(v, n) == sets[n]

\* the steps are evaluated in scope[subtarget], whose writes stay in its own
\* mapping: what the subtarget has published in the variant scope is as before
published_by_steps(v, n) == ssets[v][n]

\* "utils.execute(steps, ...)" evaluates the steps in order: all succeed, or
\* the k-th raises a BuildError, which the except clause records and
\* re-raises, or the k-th raises another exception; a raise ends the
\* evaluation, so k steps were begun
RunSteps(v, n, outcome, k) ==
    /\ spc[v][n] = "steps"
    /\ sstep' = [sstep EXCEPT ![v][n] = k]
    /\ ssets' = [ssets EXCEPT ![v][n] = published_by_steps(v, n)]
    /\ CASE outcome = "ok" ->
              /\ k = steps[n]
              /\ spc' = [spc EXCEPT ![v][n] = "sets"]
              /\ UNCHANGED <<node, sret>>
         [] outcome = "BuildError" ->
              /\ k \in 1..steps[n]
              /\ node' = [node EXCEPT ![v][n] = failed_node(@)]
              /\ spc' = [spc EXCEPT ![v][n] = "raised"]
              /\ sret' = [sret EXCEPT ![v][n] = "BuildError"]
         [] outcome = "Exception" ->
              /\ k \in 1..steps[n]
              /\ spc' = [spc EXCEPT ![v][n] = "raised"]
              /\ sret' = [sret EXCEPT ![v][n] = "Exception"]
              /\ UNCHANGED node
    /\ UNCHANGED <<sems, sdep, sacq, srel>>
    /\ UNCHANGED <<resolver_vars, sem_vars, build_config, orchestrator_vars, interp_vars>>

\* the loop over "sets": every binding is evaluated and written, in order;
\* a value whose evaluation raises ends build_subtarget there, outside the
\* try statement of the steps, after the bindings before it were written
RunSets(v, n) ==
    /\ spc[v][n] = "sets"
    /\ IF sets[n] /\ sets_raise[n].error # "none"
       THEN /\ ssets' = [ssets EXCEPT ![v][n] = sets_raise[n].written]
            /\ spc' = [spc EXCEPT ![v][n] = "raised"]
            /\ sret' = [sret EXCEPT ![v][n] = sets_raise[n].error]
       ELSE /\ ssets' = [ssets EXCEPT ![v][n] = sets[n]]
            /\ spc' = [spc EXCEPT ![v][n] = "finish"]
            /\ UNCHANGED sret
    /\ UNCHANGED <<sems, node, sdep, sacq, srel, sstep>>
    /\ UNCHANGED <<resolver_vars, sem_vars, build_config, orchestrator_vars, interp_vars>>

\* "_success = True; _finished = True; _duration = ..."
MarkFinished(v, n) ==
    /\ spc[v][n] = "finish"
    /\ node' = [node EXCEPT ![v][n].success = "True", ![v][n].finished = TRUE,
                            ![v][n].duration = TRUE]
    /\ spc' = [spc EXCEPT ![v][n] = "release"]
    /\ UNCHANGED <<sems, sdep, sacq, srel, sstep, ssets, sret>>
    /\ UNCHANGED <<resolver_vars, sem_vars, build_config, orchestrator_vars, interp_vars>>

\* a build_subtarget that returned nothing
result_of_none(n) == "falsy"

\* the truth of "result" at "return result": the list of the values of the
\* steps, which is falsy when it is empty
result_of(n) == IF steps[n] = 0 THEN "falsy" ELSE "truthy"

\* the release loop "semaphore.release(semaphore_count)" and "return result":
\* result is the list of the steps' values, empty for a subtarget without steps
ReleaseLocks(v, n) ==
    /\ spc[v][n] = "release"
    /\ LET ls == locks[n]
           k  == srel[v][n] + 1
       IN  IF k > Len(ls)
           THEN /\ spc' = [spc EXCEPT ![v][n] = "returned"]
                /\ sret' = [sret EXCEPT ![v][n] = result_of(n)]
                /\ UNCHANGED <<sems, srel>>
           ELSE LET i == semaphore_of(v, ls[k].name)
                    woken == sems[i].waiters
                IN  /\ sems' = [sems EXCEPT ![i] = sem_released(@, ls[k].count)]
                    /\ srel' = [srel EXCEPT ![v][n] = k]
                    /\ spc' = IF woken = <<>> THEN spc
                              ELSE [spc EXCEPT ![Head(woken)[1]][Head(woken)[2]] = "lock_notified"]
                    /\ UNCHANGED sret
    /\ UNCHANGED <<node, sdep, sacq, sstep, ssets>>
    /\ UNCHANGED <<resolver_vars, sem_vars, build_config, orchestrator_vars, interp_vars>>

Terminated(v, n) == spc[v][n] \in {"returned", "raised"}
Raised(v, n) == spc[v][n] = "raised"

\* ---- build_variant ------------------------------------------------------

\* lines 517-538: scope[target] = None for every target, then a scope with
\* _finished False and _success None for every scheduled subtarget
VariantInit(v) ==
    /\ vpc[v] = "init"
    /\ node' = [node EXCEPT ![v] = [n \in Names |->
                    IF n \in Range(Schedule)
                    THEN [exists |-> TRUE, finished |-> FALSE, success |-> "None",
                          exception |-> FALSE, duration |-> FALSE]
                    ELSE NoNode]]
    /\ vpc' = [vpc EXCEPT ![v] = "subtargets"]
    /\ vidx' = [vidx EXCEPT ![v] = 1]
    /\ UNCHANGED <<sems, spc, sdep, sacq, srel, sstep, ssets, sret, vret, bpc, bidx, bret>>
    /\ UNCHANGED <<resolver_vars, sem_vars, build_config, interp_vars>>

\* subtargets_in_parallel: every subtarget is submitted to the pool
SubmitSubtargets(v) ==
    /\ vpc[v] = "subtargets"
    /\ flags.subtargets_in_parallel
    /\ sdep' = [sdep EXCEPT ![v] = [n \in Names |-> IF n \in Range(Schedule) THEN 1 ELSE @[n]]]
    /\ spc' = [spc EXCEPT ![v] = [n \in Names |-> IF n \in Range(Schedule) THEN "deps" ELSE @[n]]]
    /\ vpc' = [vpc EXCEPT ![v] = "join"]
    /\ UNCHANGED <<sems, node, sacq, srel, sstep, ssets, sret, vidx, vret, bpc, bidx, bret>>
    /\ UNCHANGED <<resolver_vars, sem_vars, build_config, interp_vars>>

\* the with block of the pool ends when every worker has ended; then the
\* loop over the futures: the first exception is re-raised as a BuildError,
\* a falsy result makes the variant's result False
JoinSubtargets(v) ==
    /\ vpc[v] = "join"
    /\ \A n \in Range(Schedule) : Terminated(v, n)
    /\ IF \E n \in Range(Schedule) : Raised(v, n)
       THEN /\ vpc' = [vpc EXCEPT ![v] = "raised"]
            /\ vret' = [vret EXCEPT ![v] = "BuildError"]
       ELSE /\ vpc' = [vpc EXCEPT ![v] = "returned"]
            /\ vret' = [vret EXCEPT ![v] =
                          IF \A n \in Range(Schedule) : sret[v][n] = "truthy" THEN "True" ELSE "False"]
    /\ UNCHANGED <<sems, node, spc, sdep, sacq, srel, sstep, ssets, sret, vidx, bpc, bidx, bret>>
    /\ UNCHANGED <<resolver_vars, sem_vars, build_config, interp_vars>>

\* a sequential loop that hands every subtarget to workers at once
CallSubtarget_at_once(v) ==
    /\ vpc[v] = "subtargets"
    /\ ~flags.subtargets_in_parallel
    /\ sdep' = [sdep EXCEPT ![v] = [n \in Names |-> IF n \in Range(Schedule) THEN 1 ELSE @[n]]]
    /\ spc' = [spc EXCEPT ![v] = [n \in Names |-> IF n \in Range(Schedule) THEN "deps" ELSE @[n]]]
    /\ vpc' = [vpc EXCEPT ![v] = "join"]
    /\ UNCHANGED <<sems, node, sacq, srel, sstep, ssets, sret, vidx, vret, bpc, bidx, bret>>
    /\ UNCHANGED <<resolver_vars, sem_vars, build_config, interp_vars>>

\* sequential mode: the loop calls build_subtarget for the next subtarget
CallSubtarget(v) ==
    /\ vpc[v] = "subtargets"
    /\ ~flags.subtargets_in_parallel
    /\ IF vidx[v] > Len(Schedule)
       THEN /\ vpc' = [vpc EXCEPT ![v] = "returned"]
            /\ vret' = [vret EXCEPT ![v] = "True"]
            /\ UNCHANGED <<spc, sdep>>
       ELSE /\ sdep' = [sdep EXCEPT ![v][Schedule[vidx[v]]] = 1]
            /\ spc' = [spc EXCEPT ![v][Schedule[vidx[v]]] = "deps"]
            /\ vpc' = [vpc EXCEPT ![v] = "in_subtarget"]
            /\ UNCHANGED vret
    /\ UNCHANGED <<sems, node, sacq, srel, sstep, ssets, sret, vidx, bpc, bidx, bret>>
    /\ UNCHANGED <<resolver_vars, sem_vars, build_config, interp_vars>>

\* sequential mode: the call returned or raised
SubtargetReturned(v) ==
    /\ vpc[v] = "in_subtarget"
    /\ LET n == Schedule[vidx[v]]
       IN  /\ Terminated(v, n)
           /\ CASE sret[v][n] = "truthy" ->
                     /\ vidx' = [vidx EXCEPT ![v] = @ + 1]
                     /\ vpc' = [vpc EXCEPT ![v] = "subtargets"]
                     /\ UNCHANGED vret
                [] sret[v][n] = "falsy" ->
                     /\ vpc' = [vpc EXCEPT ![v] = "returned"]
                     /\ vret' = [vret EXCEPT ![v] = "False"]
                     /\ UNCHANGED vidx
                [] OTHER ->
                     /\ vpc' = [vpc EXCEPT ![v] = "raised"]
                     /\ vret' = [vret EXCEPT ![v] = sret[v][n]]
                     /\ UNCHANGED vidx
    /\ UNCHANGED <<sems, node, spc, sdep, sacq, srel, sstep, ssets, sret, bpc, bidx, bret>>
    /\ UNCHANGED <<resolver_vars, sem_vars, build_config, interp_vars>>

VariantTerminated(v) == vpc[v] \in {"returned", "raised"}

\* ---- build and build_variants -------------------------------------------

\* Build.__init__, "Determine list of semaphore names": every entry of a
\* "locks" list is used as a key of self.ressources; an entry of the form
\* {name: count} is a mapping, which cannot be hashed: TypeError
BuildConstruct ==
    /\ bpc = "construct"
    /\ IF \E n \in Names : \E k \in DOMAIN locks[n] : locks[n][k].dict
       THEN bpc' = "unconstructed" /\ bret' = "Exception"
       ELSE bpc' = "resolve" /\ UNCHANGED bret
    /\ UNCHANGED <<sems, node, spc, sdep, sacq, srel, sstep, ssets, sret, vpc, vidx, vret, bidx>>
    /\ UNCHANGED <<resolver_vars, sem_vars, build_config, interp_vars>>

\* line 349: subtargets = self.determine_subtargets(...)
BuildResolve ==
    /\ bpc = "resolve"
    /\ result' = determine_subtargets(call.targets, call.skip_targets, call.from_targets)
    /\ IF result'.kind = "return"
       THEN bpc' = "arguments" /\ UNCHANGED bret
       ELSE bpc' = "raised" /\ bret' = result'.kind
    /\ UNCHANGED <<targets, call, build_config, sems, node,
                   spc, sdep, sacq, srel, sstep, ssets, sret, vpc, vidx, vret, bidx>>
    /\ UNCHANGED <<sem_vars, interp_vars>>

\* the checks of check_arguments for one entry of "required-arguments"
\* (lines 272-318); a condition is "none", a mapping with "condition" and
\* "error-message" ("dict"), or an expression that the supplied values meet
\* or do not meet
check_argument(entry) ==
    IF entry.condition = "dict"
    THEN \* condition = condition["condition"]; condition.get(...) on a str
         "AttributeError"
    ELSE IF entry.argument \notin self_arguments THEN "BuildError"
    ELSE IF arguments.form = "None"
    THEN \* "argument_identifier not in arguments" with arguments None
         "TypeError"
    ELSE IF arguments.value = "absent" THEN "BuildError"
    ELSE IF entry.condition = "none"
    THEN IF arguments.form = "Namespace"
         THEN \* arguments[argument_identifier]: a Namespace has no subscript
              "TypeError"
         ELSE IF arguments.value = "None" THEN "BuildError" ELSE "ok"
    ELSE IF arguments.form = "Namespace"
    THEN \* the lookup of the condition fails in Scope(arguments, scope); the
         \* TypeError becomes a BuildError in execute
         "BuildError"
    ELSE IF entry.condition = "met" THEN "ok" ELSE "BuildError"

\* check_arguments(arguments, subtargets, scope): how it ends, by the first
\* entry in the order of the schedule that does not pass
RECURSIVE check_arguments(_, _, _)
check_arguments(subtargets, i, k) ==
    IF i > Len(subtargets) THEN "ok"
    ELSE IF k > Len(required_arguments[subtargets[i]]) THEN check_arguments(subtargets, i + 1, 1)
    ELSE LET outcome == check_argument(required_arguments[subtargets[i]][k])
         IN  IF outcome = "ok" THEN check_arguments(subtargets, i, k + 1) ELSE outcome

\* line 352: self.check_arguments(arguments, subtargets, scope)
CheckArguments ==
    /\ bpc = "arguments"
    /\ LET outcome == check_arguments(Schedule, 1, 1)
       IN  CASE outcome = "ok" -> bpc' = "semaphores" /\ UNCHANGED bret
             [] outcome = "BuildError" -> bpc' = "raised" /\ bret' = "BuildError"
             [] OTHER -> bpc' = "raised" /\ bret' = "Exception"
    /\ UNCHANGED <<sems, node, spc, sdep, sacq, srel, sstep, ssets, sret, vpc, vidx, vret, bidx>>
    /\ UNCHANGED <<resolver_vars, sem_vars, build_config, interp_vars>>

\* lines 385-393: "Create all involved semaphores"
CreateSemaphores ==
    /\ bpc = "semaphores"
    /\ sems' = [i \in SemIds |->
                  IF i \in created_semaphores(i[1])
                  THEN [exists |-> TRUE, count |-> 0,
                        max_count |-> ressources[i[1]].count, waiters |-> <<>>]
                  ELSE NoSemaphore]
    /\ bpc' = "variants"
    /\ bidx' = 1
    /\ UNCHANGED <<node, spc, sdep, sacq, srel, sstep, ssets, sret, vpc, vidx, vret, bret>>
    /\ UNCHANGED <<resolver_vars, sem_vars, build_config, interp_vars>>

\* variants_in_parallel: every variant is submitted to the pool
SubmitVariants ==
    /\ bpc = "variants"
    /\ flags.variants_in_parallel
    /\ vpc' = [v \in Variants |-> "init"]
    /\ bpc' = "join"
    /\ UNCHANGED <<sems, node, spc, sdep, sacq, srel, sstep, ssets, sret, vidx, vret, bidx, bret>>
    /\ UNCHANGED <<resolver_vars, sem_vars, build_config, interp_vars>>

\* the pool's with block ends when every variant has ended; then the loop
\* over the futures
JoinVariants ==
    /\ bpc = "join"
    /\ \A v \in Variants : VariantTerminated(v)
    /\ IF \E v \in Variants : vpc[v] = "raised"
       THEN bpc' = "raised" /\ bret' = "BuildError"
       ELSE /\ bpc' = "returned"
            /\ bret' = IF \A v \in Variants : vret[v] = "True" THEN "True" ELSE "False"
    /\ UNCHANGED <<sems, node, spc, sdep, sacq, srel, sstep, ssets, sret, vpc, vidx, vret, bidx>>
    /\ UNCHANGED <<resolver_vars, sem_vars, build_config, interp_vars>>

\* sequential mode: the loop calls build_variant for the next variant
CallVariant ==
    /\ bpc = "variants"
    /\ ~flags.variants_in_parallel
    /\ IF bidx > Len(VariantOrder)
       THEN bpc' = "returned" /\ bret' = "True" /\ UNCHANGED vpc
       ELSE /\ vpc' = [vpc EXCEPT ![VariantOrder[bidx]] = "init"]
            /\ bpc' = "in_variant"
            /\ UNCHANGED bret
    /\ UNCHANGED <<sems, node, spc, sdep, sacq, srel, sstep, ssets, sret, vidx, vret, bidx>>
    /\ UNCHANGED <<resolver_vars, sem_vars, build_config, interp_vars>>

\* sequential mode: the call returned or raised
VariantReturned ==
    /\ bpc = "in_variant"
    /\ LET v == VariantOrder[bidx]
       IN  /\ VariantTerminated(v)
           /\ CASE vret[v] = "True" ->
                     bidx' = bidx + 1 /\ bpc' = "variants" /\ UNCHANGED bret
                [] vret[v] = "False" ->
                     bpc' = "returned" /\ bret' = "False" /\ UNCHANGED bidx
                [] OTHER ->
                     bpc' = "raised" /\ bret' = vret[v] /\ UNCHANGED bidx
    /\ UNCHANGED <<sems, node, spc, sdep, sacq, srel, sstep, ssets, sret, vpc, vidx, vret>>
    /\ UNCHANGED <<resolver_vars, sem_vars, build_config, interp_vars>>

SemInit ==
    /\ SemIdle
    /\ InterpIdle
    /\ BuildIdle
    /\ targets = [n \in Names |-> <<>>]
    /\ call = NoCall
    /\ result = NoResult

\* threads that release only what they acquired
SemNext ==
    \/ \E w \in Workers, count \in Amounts : AcquireCall(w, count)
    \/ \E w \in Workers : AcquireLock(w)
    \/ \E w \in Workers : AcquireCheck(w)
    \/ \E w \in Workers : AcquireLoad(w)
    \/ \E w \in Workers : AcquireStore(w)
    \/ \E w \in Workers : ReleaseCall(w)
    \/ \E w \in Workers : ReleaseLock(w)
    \/ \E w \in Workers : ReleaseLoad(w)
    \/ \E w \in Workers : ReleaseStore(w)
    \/ \E w \in Workers : ReleaseNotify(w)

\* threads that may also call release without a matching acquire
SemAnyNext ==
    \/ SemNext
    \/ \E w \in Workers, count \in Amounts : ReleaseCallUnheld(w, count)

SpecSemaphore == SemInit /\ [][SemNext]_vars

SpecSemaphoreAny == SemInit /\ [][SemAnyNext]_vars

(***************************************************************************)
(* The resolver: one call per loaded configuration                         *)
(***************************************************************************)
ResolverInit ==
    /\ targets \in Configs
    /\ call = NoCall
    /\ result = NoResult
    /\ SemIdle
    /\ InterpIdle
    /\ BuildIdle

\* Build.build resolves the schedule once per invocation
DetermineSubtargets ==
    /\ result.kind = "none"
    /\ \E tgs \in DistinctSeqs(Names, MaxTargets) \ {<<>>},
          sk \in DistinctSeqs(Names, MaxSkip),
          fr \in DistinctSeqs(Names, MaxFrom) :
           /\ call' = [targets |-> tgs, skip_targets |-> sk, from_targets |-> fr]
           /\ result' = determine_subtargets(tgs, sk, fr)
           /\ UNCHANGED <<targets, sem_vars, build_vars, interp_vars>>

ResolverNext == DetermineSubtargets

SpecResolver == ResolverInit /\ [][ResolverNext]_vars

\* ---- the builds that are run ---------------------------------------------

\* ---- Scope objects in a chain ---------------------------------------------

\* the chains of n Scope objects, each the base of the next, with any bindings
ScopeInit ==
    /\ \E n \in 1..NumScopes :
        /\ sc_live = 1..n
        /\ sc_base = [s \in ScopeIds |-> IF s <= n THEN s - 1 ELSE NoBase]
        /\ sc_variables \in [ScopeIds -> [Keys -> Values \cup {Absent}]]
        /\ \A s \in ScopeIds : s > n => sc_variables[s] = EmptyMapping
    /\ sc_internal = [s \in ScopeIds |-> FALSE]
    /\ ExecIdle
    /\ sc_last = NoLookup
    /\ SemIdle
    /\ BuildIdle
    /\ targets = [n \in Names |-> <<>>]
    /\ call = NoCall
    /\ result = NoResult

ScopeNext ==
    \/ \E s \in ScopeIds, key \in Keys, value \in Values : SetItem(s, key, value)
    \/ \E s \in ScopeIds, key \in Keys : GetItem(s, key)
    \/ \E s \in ScopeIds, key \in Keys : Contains(s, key)
    \/ \E s \in ScopeIds, key \in Keys : Get(s, key)

SpecScope == ScopeInit /\ [][ScopeNext]_vars

\* ---- the scopes of a build and the sets bindings ----------------------------

BuildScope == 1
VariantScopes == {2, 3}
\* the scopes of the first and of the second subtarget of the first variant
FirstNode == 4
SecondNode == 5

\* the scopes as build (lines 343, 383) and build_variant (lines 518-532) make
\* them, with any variant data, and any bindings by the steps of the first
\* subtarget in its scope
SetsInit ==
    /\ sc_live = 1..BuildScopes
    /\ sc_base = [s \in ScopeIds |->
                    IF s \in VariantScopes THEN BuildScope
                    ELSE IF s \in {FirstNode, SecondNode} THEN 2
                    ELSE NoBase]
    /\ sc_internal = [s \in ScopeIds |-> s <= BuildScopes]
    /\ sc_variables \in [ScopeIds -> [Keys -> Values \cup {Absent}]]
    /\ \A s \in ScopeIds \ (VariantScopes \cup {FirstNode}) : sc_variables[s] = EmptyMapping
    /\ ExecIdle
    /\ sc_last = NoLookup
    /\ SemIdle
    /\ BuildIdle
    /\ targets = [n \in Names |-> <<>>]
    /\ call = NoCall
    /\ result = NoResult

SetsNext ==
    \/ \E n \in {FirstNode, SecondNode}, variable \in Keys, value \in Expressions :
          SetsBinding(n, variable, value)
    \/ \E s \in ScopeIds, key \in Keys : GetItem(s, key)

SpecSets == SetsInit /\ [][SetsNext]_vars

(***************************************************************************)
(* Evaluations of small configurations                                     *)
(***************************************************************************)
\* the longest tuple of positional arguments of a call
MaxArgs == 2

\* the tuples of positional arguments
ArgSeqs == UNION {[1..n -> Values] : n \in 0..MaxArgs}

\* the statement in the middle of the body
LeafNode(leaf) ==
    CASE leaf = "set" -> SetNode("y", 5)
      [] leaf = "return" -> ReturnNode(8)
      [] leaf = "lookup" -> NameOf("exception")
      [] OTHER -> RaiseNode(leaf)

\* the node around the body: none, a Try or a WithRessource
WrapperNode(wrapper, has_except, classes, has_fin, count) ==
    CASE wrapper = "try" -> TryNode(3, has_except, {"BuildError"}, classes, IF has_fin THEN 9 ELSE 0)
      [] wrapper = "with" -> WithNode(count, 3)
      [] OTHER -> Sequence(<<4, 6, 7>>)

\* the configuration  [x = 1, <leaf>, x = 2]  with its wrapper, as it is or
\* as the body of a Function; node 1 is its root
Program(wrapper, leaf, has_except, classes, has_fin, count, in_function, params) ==
    LET w == WrapperNode(wrapper, has_except, classes, has_fin, count)
    IN  << IF in_function THEN FunctionNode(params, 2) ELSE w,
           w,
           Sequence(<<4, 6, 7>>),
           SetNode("x", 5),
           Lit(1),
           LeafNode(leaf),
           SetNode("x", 10),
           NameOf("x"),
           Sequence(<<12>>),
           Lit(2),
           Lit(2),
           SetNode("y", 11) >>

Leaves == {"set", "return", "lookup", "BuildError", "KeyError"}

ExecInit ==
    /\ \E wrapper \in {"plain", "try", "with"}, leaf \in Leaves,
          has_except \in BOOLEAN, classes \in BOOLEAN, has_fin \in BOOLEAN,
          count \in 1..MaxAmount,
          in_function \in BOOLEAN, params \in {<<>>, <<"x">>} :
          /\ wrapper # "try" => ~has_except /\ ~has_fin
          /\ ~has_except => classes
          /\ wrapper # "with" => count = 1
          /\ ~in_function => params = <<>>
          /\ ip_prog = Program(wrapper, leaf, has_except, classes, has_fin, count, in_function,
                               params)
    /\ ip_sem \in [class : {"utils", "threading"}, max : {SemCapacity}, held0 : 0..SemCapacity]
    /\ ip_assert \in BOOLEAN
    /\ ip_prog[2].kind # "with" => ip_sem.class = "utils" /\ ip_sem.held0 = 0 /\ ip_assert
    /\ ip_args \in ArgSeqs
    /\ ip_kwargs \in [IKeys -> {0, 1}]
    /\ ip_kwargs["value"] = 0 /\ ip_kwargs["exception"] = 0
    /\ ip_prog[1].kind # "function" => ip_args = <<>> /\ ip_kwargs = NoKwargs
    /\ \E x \in {AbsentValue} \cup {IntValue(v) : v \in Values} :
          ip_st = [scopes |-> <<[NewScope(0) EXCEPT !.vars["x"] = x]>>,
                   held |-> ip_sem.held0, log |-> <<>>]
    /\ ip_out = NotRun
    /\ sc_variables = [s \in ScopeIds |-> EmptyMapping]
    /\ sc_base = [s \in ScopeIds |-> NoBase]
    /\ sc_internal = [s \in ScopeIds |-> FALSE]
    /\ sc_live = {}
    /\ sc_last = NoLookup
    /\ SemIdle
    /\ BuildIdle
    /\ targets = [n \in Names |-> <<>>]
    /\ call = NoCall
    /\ result = NoResult

\* execute(configuration, scope) in the outermost scope
Execute ==
    /\ ip_out = NotRun
    /\ LET r == exec(1, 1, ip_st)
       IN  ip_st' = r.st /\ ip_out' = r.out
    /\ UNCHANGED <<ip_prog, ip_sem, ip_assert, ip_args, ip_kwargs>>
    /\ UNCHANGED <<resolver_vars, sem_vars, build_vars, scope_vars>>

\* a call of the function the configuration evaluated to
Call ==
    /\ ip_out.how = "value" /\ ip_out.val.type = "function"
    /\ LET r == call_function(ip_out.val.v, 1, ip_args, ip_kwargs, ip_st)
       IN  ip_st' = r.st /\ ip_out' = r.out
    /\ UNCHANGED <<ip_prog, ip_sem, ip_assert, ip_args, ip_kwargs>>
    /\ UNCHANGED <<resolver_vars, sem_vars, build_vars, scope_vars>>

ExecNext ==
    \/ Execute
    \/ Call

SpecInterp == ExecInit /\ [][ExecNext]_vars

\* the target table "C requires B requires A"
ChainGraph == [n \in Names |-> IF n = "C" THEN <<"B">> ELSE IF n = "B" THEN <<"A">> ELSE <<>>]
\* a target table without requirements
FlatGraph == [n \in Names |-> <<>>]

NoLocks == [n \in Names |-> <<>>]
\* every target declared with "locks: [R]"
EachLocksR == [n \in Names |-> <<[name |-> "R", count |-> 1, dict |-> FALSE]>>]
\* the target B declared with "locks: [{R: MaxCapacity}]"
DictLockB ==
    [n \in Names |-> IF n = "B" THEN <<[name |-> "R", count |-> MaxCapacity, dict |-> TRUE]>>
                     ELSE <<[name |-> "R", count |-> 1, dict |-> FALSE]>>]

\* every target with the same number of steps
EachSteps(k) == [n \in Names |-> k]
\* the target B declared without steps
NoStepsB == [n \in Names |-> IF n = "B" THEN 0 ELSE MaxSteps]

\* every target with "sets" bindings, or none
EachSets == [n \in Names |-> TRUE]
NoSets == [n \in Names |-> FALSE]

Request(tgs) == [targets |-> tgs, skip_targets |-> <<>>, from_targets |-> <<>>]
RequestSkipping(tgs, skip) == [targets |-> tgs, skip_targets |-> skip, from_targets |-> <<>>]
RequestFrom(tgs, frm) == [targets |-> tgs, skip_targets |-> <<>>, from_targets |-> frm]

\* a name that no target of the configuration has
Undefined == "X"

\* loaded configurations with a build request:
\* (target table, locks, steps, sets, request)
Builds ==
    { <<ChainGraph, EachLocksR, EachSteps(MaxSteps), EachSets, Request(<<"C">>)>>,
      <<FlatGraph, EachLocksR, NoStepsB, NoSets, Request(<<"A", "B">>)>>,
      <<ChainGraph, NoLocks, EachSteps(1), EachSets, RequestSkipping(<<"C">>, <<"B">>)>>,
      <<FlatGraph, DictLockB, EachSteps(1), NoSets, Request(<<"A", "B">>)>>,
      <<ChainGraph, NoLocks, EachSteps(1), NoSets, Request(<<"B", Undefined>>)>>,
      <<ChainGraph, NoLocks, EachSteps(1), NoSets, RequestSkipping(<<"B">>, <<Undefined>>)>>,
      <<ChainGraph, NoLocks, EachSteps(1), NoSets, RequestFrom(<<"B">>, <<Undefined>>)>> }

DefaultRessource == [per_variant |-> FALSE, count |-> 1]

\* what the evaluation of the "sets" values of a target may do: succeed, or
\* raise a BuildError or another exception at the first value or at a later one
SetsRaises == [error : {"none", "BuildError", "Exception"}, written : BOOLEAN]

\* a loaded configuration, whose ressources have their defaults, and the
\* arguments of one call of build()
BuildInit ==
    /\ \E b \in Builds :
        /\ targets = b[1]
        /\ locks = b[2]
        /\ steps = b[3]
        /\ sets = b[4]
        /\ call = b[5]
    /\ result = NoResult
    /\ ressources \in [ResNames -> [per_variant : BOOLEAN, count : 1..MaxCapacity]]
    /\ ressources["S"] = DefaultRessource
    /\ locks = NoLocks => ressources["R"] = DefaultRessource
    /\ flags \in [variants_in_parallel : BOOLEAN, subtargets_in_parallel : BOOLEAN, fail_early : BOOLEAN]
    /\ required_arguments = [n \in Names |-> <<>>]
    /\ sets_raise = NoSetsRaise
    /\ self_arguments = {}
    /\ arguments = [form |-> "None", value |-> "absent"]
    /\ sems = [i \in SemIds |-> NoSemaphore]
    /\ node = [v \in Variants |-> [n \in Names |-> NoNode]]
    /\ spc = [v \in Variants |-> [n \in Names |-> "unsubmitted"]]
    /\ sdep = [v \in Variants |-> [n \in Names |-> 0]]
    /\ sacq = [v \in Variants |-> [n \in Names |-> 0]]
    /\ srel = [v \in Variants |-> [n \in Names |-> 0]]
    /\ sstep = [v \in Variants |-> [n \in Names |-> 0]]
    /\ ssets = [v \in Variants |-> [n \in Names |-> FALSE]]
    /\ sret = [v \in Variants |-> [n \in Names |-> "none"]]
    /\ vpc = [v \in Variants |-> "unsubmitted"]
    /\ vidx = [v \in Variants |-> 0]
    /\ vret = [v \in Variants |-> "none"]
    /\ bpc = "construct"
    /\ bidx = 0
    /\ bret = "none"
    /\ SemIdle
    /\ InterpIdle

BuildNext ==
    \/ BuildConstruct
    \/ BuildResolve
    \/ CheckArguments
    \/ CreateSemaphores
    \/ SubmitVariants
    \/ JoinVariants
    \/ CallVariant
    \/ VariantReturned
    \/ \E v \in Variants : VariantInit(v)
    \/ \E v \in Variants : SubmitSubtargets(v)
    \/ \E v \in Variants : JoinSubtargets(v)
    \/ \E v \in Variants : CallSubtarget(v)
    \/ \E v \in Variants : SubtargetReturned(v)
    \/ \E v \in Variants, n \in Names : WaitDependencies(v, n)
    \/ \E v \in Variants, n \in Names : AcquireLocks(v, n)
    \/ \E v \in Variants, n \in Names, outcome \in {"ok", "BuildError", "Exception"},
          k \in 0..MaxSteps : RunSteps(v, n, outcome, k)
    \/ \E v \in Variants, n \in Names : RunSets(v, n)
    \/ \E v \in Variants, n \in Names : MarkFinished(v, n)
    \/ \E v \in Variants, n \in Names : ReleaseLocks(v, n)

SpecBuild == BuildInit /\ [][BuildNext]_vars

\* A declared with "locks: [R, S]" and B with "locks: [S, R]"
CrossedLocks ==
    [n \in Names |->
        IF n = "A" THEN <<[name |-> "R", count |-> 1, dict |-> FALSE],
                          [name |-> "S", count |-> 1, dict |-> FALSE]>>
        ELSE IF n = "B" THEN <<[name |-> "S", count |-> 1, dict |-> FALSE],
                               [name |-> "R", count |-> 1, dict |-> FALSE]>>
        ELSE <<>>]

\* a build of A and B, which have no requirements and declare the locks R
\* and S in opposite orders; R and S have one unit, per variant or shared
LocksInit ==
    /\ targets = FlatGraph
    /\ locks = CrossedLocks
    /\ steps = EachSteps(1)
    /\ sets = NoSets
    /\ call = Request(<<"A", "B">>)
    /\ result = NoResult
    /\ \E per_variant \in BOOLEAN :
          ressources = [r \in ResNames |-> [per_variant |-> per_variant, count |-> 1]]
    /\ flags \in [variants_in_parallel : BOOLEAN, subtargets_in_parallel : BOOLEAN, fail_early : {TRUE}]
    /\ required_arguments = [n \in Names |-> <<>>]
    /\ sets_raise = NoSetsRaise
    /\ self_arguments = {}
    /\ arguments = [form |-> "None", value |-> "absent"]
    /\ sems = [i \in SemIds |-> NoSemaphore]
    /\ node = [v \in Variants |-> [n \in Names |-> NoNode]]
    /\ spc = [v \in Variants |-> [n \in Names |-> "unsubmitted"]]
    /\ sdep = [v \in Variants |-> [n \in Names |-> 0]]
    /\ sacq = [v \in Variants |-> [n \in Names |-> 0]]
    /\ srel = [v \in Variants |-> [n \in Names |-> 0]]
    /\ sstep = [v \in Variants |-> [n \in Names |-> 0]]
    /\ ssets = [v \in Variants |-> [n \in Names |-> FALSE]]
    /\ sret = [v \in Variants |-> [n \in Names |-> "none"]]
    /\ vpc = [v \in Variants |-> "unsubmitted"]
    /\ vidx = [v \in Variants |-> 0]
    /\ vret = [v \in Variants |-> "none"]
    /\ bpc = "construct"
    /\ bidx = 0
    /\ bret = "none"
    /\ SemIdle
    /\ InterpIdle

\* every thread of the pools is scheduled: a step that can be taken is taken
SpecLocks == LocksInit /\ [][BuildNext]_vars /\ WF_vars(BuildNext)

\* the forms of a condition of a required argument
Conditions == {"none", "met", "unmet", "dict"}

\* a build of B in the chain (A then B) where every target has steps and
\* "sets", and the "sets" of A and of B may raise
FailuresInit ==
    /\ targets = ChainGraph
    /\ locks = NoLocks
    /\ steps = EachSteps(MaxSteps)
    /\ sets = EachSets
    /\ sets_raise \in [Names -> SetsRaises]
    /\ sets_raise["C"] = NoSetsRaise["C"]
    /\ \A n \in Names : sets_raise[n].error = "none" => ~sets_raise[n].written
    /\ call = Request(<<"B">>)
    /\ result = NoResult
    /\ ressources = [r \in ResNames |-> DefaultRessource]
    /\ flags \in [variants_in_parallel : BOOLEAN, subtargets_in_parallel : BOOLEAN, fail_early : BOOLEAN]
    /\ required_arguments = [n \in Names |-> <<>>]
    /\ self_arguments = {}
    /\ arguments = [form |-> "None", value |-> "absent"]
    /\ sems = [i \in SemIds |-> NoSemaphore]
    /\ node = [v \in Variants |-> [n \in Names |-> NoNode]]
    /\ spc = [v \in Variants |-> [n \in Names |-> "unsubmitted"]]
    /\ sdep = [v \in Variants |-> [n \in Names |-> 0]]
    /\ sacq = [v \in Variants |-> [n \in Names |-> 0]]
    /\ srel = [v \in Variants |-> [n \in Names |-> 0]]
    /\ sstep = [v \in Variants |-> [n \in Names |-> 0]]
    /\ ssets = [v \in Variants |-> [n \in Names |-> FALSE]]
    /\ sret = [v \in Variants |-> [n \in Names |-> "none"]]
    /\ vpc = [v \in Variants |-> "unsubmitted"]
    /\ vidx = [v \in Variants |-> 0]
    /\ vret = [v \in Variants |-> "none"]
    /\ bpc = "construct"
    /\ bidx = 0
    /\ bret = "none"
    /\ SemIdle
    /\ InterpIdle

\* "required-arguments" of a target: none, or one entry
RequiredLists == {<<>>} \cup {<<[argument |-> "a", condition |-> c]>> : c \in Conditions}

\* a build of B in the chain (A and B are scheduled, C is not) with any
\* required arguments (conditions on those of A only), with "a" under
\* "arguments" of the configuration or
\* not, and build called without arguments, with a dict or with a Namespace
ArgumentsInit ==
    /\ targets = ChainGraph
    /\ locks = EachLocksR
    /\ steps = EachSteps(1)
    /\ sets = NoSets
    /\ call = Request(<<"B">>)
    /\ result = NoResult
    /\ ressources = [r \in ResNames |-> DefaultRessource]
    /\ flags \in [variants_in_parallel : BOOLEAN, subtargets_in_parallel : BOOLEAN, fail_early : {TRUE}]
    /\ sets_raise = NoSetsRaise
    /\ required_arguments \in [Names -> RequiredLists]
    /\ \A n \in {"B", "C"} : \A k \in DOMAIN required_arguments[n] :
          required_arguments[n][k].condition = "none"
    /\ self_arguments \in {{}, {"a"}}
    /\ arguments \in [form : {"None", "dict", "Namespace"}, value : {"absent", "None", "given"}]
    /\ arguments.form = "None" => arguments.value = "absent"
    /\ sems = [i \in SemIds |-> NoSemaphore]
    /\ node = [v \in Variants |-> [n \in Names |-> NoNode]]
    /\ spc = [v \in Variants |-> [n \in Names |-> "unsubmitted"]]
    /\ sdep = [v \in Variants |-> [n \in Names |-> 0]]
    /\ sacq = [v \in Variants |-> [n \in Names |-> 0]]
    /\ srel = [v \in Variants |-> [n \in Names |-> 0]]
    /\ sstep = [v \in Variants |-> [n \in Names |-> 0]]
    /\ ssets = [v \in Variants |-> [n \in Names |-> FALSE]]
    /\ sret = [v \in Variants |-> [n \in Names |-> "none"]]
    /\ vpc = [v \in Variants |-> "unsubmitted"]
    /\ vidx = [v \in Variants |-> 0]
    /\ vret = [v \in Variants |-> "none"]
    /\ bpc = "construct"
    /\ bidx = 0
    /\ bret = "none"
    /\ SemIdle
    /\ InterpIdle

SpecArguments == ArgumentsInit /\ [][BuildNext]_vars

SpecFailures == FailuresInit /\ [][BuildNext]_vars

(***************************************************************************)
(* Claims about the resolver                                               *)
(***************************************************************************)
\* the configuration "C requires B requires A"
Chain == [n \in Names |-> IF n = "C" THEN <<"B">> ELSE IF n = "B" THEN <<"A">> ELSE <<>>]

Returned == result.kind = "return"
Called(tgs, sk, fr) ==
    /\ result.kind # "none"
    /\ call = [targets |-> tgs, skip_targets |-> sk, from_targets |-> fr]

\* the subtargets of S that n requires directly
RequiredIn(n, S) == Range(targets[n]) \cap S

\* the subtargets of S reachable from the set R over at least zero requirement edges
RECURSIVE ReachableIn(_, _)
ReachableIn(R, S) ==
    LET more == R \cup UNION {RequiredIn(n, S) : n \in R}
    IN  IF more = R THEN R ELSE ReachableIn(more, S)

\* S contains a requirement cycle (a self-requirement included)
HasCycle(S) == \E n \in S : n \in ReachableIn(RequiredIn(n, S), S)

\* C1: in every returned schedule a requirement D of T that is scheduled too
\* stands strictly before T
C1_TopologicalValidity ==
    Returned =>
        \A D, T \in Range(result.subtargets) :
            D \in Range(targets[T]) =>
                IndexOf(result.subtargets, D) < IndexOf(result.subtargets, T)

C1_Witness ==
    /\ Returned
    /\ call.from_targets # <<>>
    /\ Len(result.subtargets) = 3
    /\ \E D, T \in Range(result.subtargets) : D # T /\ D \in Range(targets[T])

\* C2: whenever the scheduled subtargets contain a requirement cycle the
\* resolution raises the cyclic-dependency BuildError
C2_CycleRaisesCyclicDependency ==
    (/\ result.kind # "none"
     /\ HasCycle(Range(scheduled_subtargets(call.targets, call.skip_targets, call.from_targets))))
        => result.kind = "BuildError"

\* C3: targets=[C], from=[B] over the chain returns the schedule [B, C]
C3_ImpactSetSchedule ==
    (targets = Chain /\ Called(<<"C">>, <<>>, <<"B">>))
        => (Returned /\ result.subtargets = <<"B", "C">>)

\* C4 as stated: targets=[C], skip=[B] over the chain schedules A and C
C4_SkipExcludesOnlyB ==
    (targets = Chain /\ Called(<<"C">>, <<"B">>, <<>>))
        => (Returned /\ Range(result.subtargets) = {"A", "C"})

\* C4 amended: targets=[C], skip=[B] over the chain returns the schedule [C];
\* A, reachable only through the skipped B, is not scheduled either
C4_SkipPrunesRequirements ==
    (targets = Chain /\ Called(<<"C">>, <<"B">>, <<>>))
        => (Returned /\ result.subtargets = <<"C">>)

C4_Witness ==
    /\ targets = Chain
    /\ Called(<<"C">>, <<"B">>, <<>>)
    /\ Returned

(***************************************************************************)
(* Claims about the semaphore                                              *)
(***************************************************************************)
\* the thread is inside acquire with the lock, between the check and the store
InAcquire(w) == wpc[w] \in {"acq_check", "acq_load", "acq_store"} /\ sem_lock = w

\* no thread is inside a call except those blocked in wait()
Quiescent == sem_lock = 0 /\ \A v \in Workers : wpc[v] \in {"idle", "acq_wait"}

\* C5: with threads that release only what they acquired, 0 <= held <= capacity
\* in every reachable state
C5_ResourceBound == 0 <= sem_count /\ sem_count <= sem_max_count

C5_Witness ==
    /\ sem_count = sem_max_count
    /\ sem_waiters # <<>>
    /\ Cardinality({w \in Workers : wheld[w] > 0}) >= 2

\* C6: a thread is admitted only from a state with capacity - held >= amount,
\* held then grows by exactly amount in that one step, and while a thread is
\* between its check and its store no step of another thread changes held
C6_AtomicAdmission ==
    [][\A w \in Workers :
          /\ (wheld[w] = 0 /\ wheld'[w] > 0) =>
                /\ sem_max_count - sem_count >= wamount[w]
                /\ sem_count' = sem_count + wamount[w]
                /\ wheld'[w] = wamount[w]
          /\ (InAcquire(w) /\ wpc'[w] = wpc[w]) => sem_count' = sem_count]_vars

C6_Witness ==
    \E w, v \in Workers :
        /\ w # v
        /\ wheld[w] > 1
        /\ wpc[v] \in {"acq_wait", "acq_lock"}
        /\ wamount[v] > 1

\* C7: once a release has made room for a blocked thread, the thread is
\* admitted without a further release; so no state in which every call in
\* progress has run to its end leaves a thread blocked in wait() whose amount fits
C7_FittingWaiterAdmitted ==
    ~ \E w \in Workers :
        /\ wpc[w] = "acq_wait"
        /\ sem_max_count - sem_count >= wamount[w]
        /\ Quiescent

\* C8: held is never negative, also when release is called without a
\* matching acquire
C8_HeldNeverNegative == sem_count >= 0


(***************************************************************************)
(* Claims about the scheduler                                              *)
(***************************************************************************)
\* the lock the worker (v, n) is queued for in Semaphore.acquire
WaitsFor(v, n) == locks[n][sacq[v][n] + 1]

\* the sum of _count over the Semaphore objects created for the ressource r
RECURSIVE CountOver(_, _)
CountOver(r, scopes) ==
    IF scopes = {} THEN 0
    ELSE LET s == CHOOSE s \in scopes : TRUE
         IN  sems[<<r, s>>].count + CountOver(r, scopes \ {s})

HeldUnits(r) == CountOver(r, Variants \cup {Global})

\* C9: build_subtarget releases every lock it acquired on every exit: once a
\* subtarget has exited, by return or by exception, it holds no unit of any
\* semaphore, so the held count of each of its locks is back to the value it
\* had before the subtarget acquired.
C9_LocksReleasedOnExit ==
    \A v \in Variants, n \in Names :
        Terminated(v, n) => \A i \in SemIds : HeldBy(v, n, i) = 0

\* a ressource with per-variant false is one instance shared by all variants:
\* the units held by the subtargets of all variants together never exceed
\* its capacity
C10_SharedBound ==
    \A r \in ResNames :
        ~ressources[r].per_variant => HeldUnits(r) <= ressources[r].count

\* a ressource with per-variant true has one independent instance per
\* variant: a subtarget blocked in acquire is never queued on an instance of
\* which a subtarget of another variant holds units
C10_VariantIndependence ==
    \A v \in Variants, n \in Names :
        (spc[v][n] = "lock_wait" /\ ressources[WaitsFor(v, n).name].per_variant) =>
            \A v2 \in Variants \ {v}, n2 \in Names :
                HeldBy(v2, n2, semaphore_of(v, WaitsFor(v, n).name)) = 0

\* C10: per-variant false means one instance shared by all variants, whose
\* capacity bounds the units held across all variants; per-variant true means
\* one independent instance per variant, so a holder in one variant never
\* blocks an acquirer in another variant.
C10_PerVariantSemantics == C10_SharedBound /\ C10_VariantIndependence

\* the subtargets the scheduled subtarget n requires that are scheduled too
ScheduledRequirements(n) == Range(targets[n]) \cap Range(Schedule)

\* the dependency loop of the worker (v, n) is over: it may acquire its locks
\* and start its steps
PastDependencies(v, n) == spc[v][n] # "unsubmitted" /\ sdep[v][n] > Len(targets[n])

\* the ExecutionNode of the subtarget d is terminal: succeeded or failed
TerminalNode(v, d) == node[v][d].finished \/ node[v][d].success = "False"

\* C11: in subtarget-parallel mode no subtarget gets past its dependency loop,
\* to acquire locks and start steps, before every scheduled requirement of it
\* has reached a terminal state in the same variant
C11_DependenciesTerminalBeforeStart ==
    flags.subtargets_in_parallel =>
        \A v \in Variants, n \in Range(Schedule) :
            PastDependencies(v, n) => \A d \in ScheduledRequirements(n) : TerminalNode(v, d)

\* B runs its steps after A finished while C still waits for B
C11_Witness ==
    /\ flags.subtargets_in_parallel
    /\ targets = ChainGraph
    /\ \E v \in Variants :
        /\ spc[v]["B"] = "steps"
        /\ node[v]["A"].finished
        /\ spc[v]["C"] = "deps"

\* the subtarget d has failed: its failure is recorded, or its worker ended
\* by an exception
Failed(v, d) == node[v][d].success = "False" \/ Raised(v, d)

\* the worker (v, n) has asked for a lock, begun a step or run its sets
HasRun(v, n) ==
    \/ sacq[v][n] > 0
    \/ spc[v][n] \in {"lock_wait", "lock_notified", "steps", "sets", "finish", "release"}
    \/ sstep[v][n] > 0
    \/ ssets[v][n]

\* C12: a subtarget with a failed requirement never acquires a lock, never
\* evaluates a step or a sets binding, and does not end succeeded: it is not
\* recorded success=true and, when it returns, returns a falsy value
C12_FailedRequirementSkips ==
    \A v \in Variants, n \in Range(Schedule) :
        (\E d \in Range(targets[n]) : Failed(v, d)) =>
            /\ ~HasRun(v, n)
            /\ node[v][n].success # "True"
            /\ Terminated(v, n) => (spc[v][n] = "returned" /\ sret[v][n] = "falsy")

\* B returned without running after the step of A failed
C12_Witness ==
    \E v \in Variants :
        /\ node[v]["A"].success = "False"
        /\ "A" \in Range(targets["B"])
        /\ locks["B"] # <<>> /\ steps["B"] > 0 /\ sets["B"]
        /\ spc[v]["B"] = "returned"

\* the worker (v, n) polls a requirement whose worker has ended and left
\* neither _finished true nor _success False: no later step ends this wait
WaitsForEver(v, n) ==
    /\ spc[v][n] = "deps"
    /\ sdep[v][n] <= Len(targets[n])
    /\ LET d == targets[n][sdep[v][n]]
       IN  /\ node[v][d].exists
           /\ Terminated(v, d)
           /\ ~node[v][d].finished
           /\ node[v][d].success # "False"

\* C13: in subtarget-parallel mode every worker returns: after a subtarget
\* failed, no subtarget that requires it, directly or transitively, is left
\* waiting for ever on a requirement that has ended
C13_DependentsEndAfterFailure ==
    flags.subtargets_in_parallel =>
        \A v \in Variants, n \in Range(Schedule) : ~WaitsForEver(v, n)

\* C14: in fail-fast mode with parallel items the orchestrator stops waiting
\* as soon as the first item has failed: once a worker of the pool has ended
\* by an exception, build_variant (for its subtargets) and build_variants (for
\* the variants) can leave their wait and report, whether or not the sibling
\* items have ended
C14_FailFastStopsWaiting ==
    flags.fail_early =>
        /\ \A v \in Variants :
              (vpc[v] = "join" /\ \E n \in Range(Schedule) : Raised(v, n))
                  => ENABLED JoinSubtargets(v)
        /\ (bpc = "join" /\ \E v \in Variants : vpc[v] = "raised")
                  => ENABLED JoinVariants


\* the call of build has ended, by a return or by an exception
BuildEnded == bpc \in {"returned", "raised"}

\* every scheduled requirement of n has succeeded in the variant v
RequirementsSucceeded(v, n) ==
    \A d \in ScheduledRequirements(n) : node[v][d].success = "True"

\* C15: in fail-complete mode (fail_early false), sequential or parallel, a
\* failure stops nothing that does not depend on it: when the build has ended
\* every variant has been run and, in every variant, every scheduled
\* subtarget whose requirements succeeded has been run
C15_FailCompleteRunsEverything ==
    (BuildEnded /\ ~flags.fail_early /\ result.kind = "return") =>
        \A v \in Variants :
            /\ vpc[v] # "unsubmitted"
            /\ \A n \in Range(Schedule) : RequirementsSucceeded(v, n) => HasRun(v, n)


\* C16: the result of a build that returns is the logical AND over every
\* scheduled (variant, subtarget): it is true exactly when every one of them
\* ended recorded success=true, whatever the number of steps of a subtarget
\* (none included) and the values of its steps
C16_ResultIsConjunction ==
    bpc = "returned" =>
        (bret = "True" <=>
            \A v \in Variants, n \in Range(Schedule) : node[v][n].success = "True")


\* the scenario of C17: the chain C -> B -> A with targets=[C], variants v1
\* and v2 run in parallel; every subtarget has a step
ChainExample ==
    /\ targets = ChainGraph
    /\ call = Request(<<"C">>)
    /\ Variants = {"v1", "v2"}
    /\ flags.variants_in_parallel
    /\ \A n \in Names : steps[n] > 0

\* no step of the build has failed
NoStepFailed == \A v \in Variants, n \in Names : sret[v][n] \notin {"BuildError", "Exception"}

\* the worker (v, n) has begun: it is past its dependency loop
Begun(v, n) == PastDependencies(v, n)

Started(v, n) == spc[v][n] # "unsubmitted"

\* in the variant v the started subtargets are a prefix of the schedule, and
\* all of them but the last have ended
InScheduleOrder(v) ==
    \A i, j \in 1..Len(Schedule) :
        (i < j /\ Started(v, Schedule[j])) =>
            (Started(v, Schedule[i]) /\ Terminated(v, Schedule[i]))

\* a worker is started once: it never returns to its beginning
StartedOnce(v) ==
    \A n \in Names :
        /\ Started(v, n) => Started(v, n)'
        /\ Terminated(v, n) => Terminated(v, n)'
        /\ (Started(v, n) /\ sdep[v][n] > 1) => sdep'[v][n] > 1

\* C18: in subtarget-sequential mode the subtargets of a variant run strictly
\* in the order of the schedule: subtarget i+1 is not started before
\* subtarget i has ended, and no subtarget is started out of order or twice
C18_SequentialOrder ==
    [][~flags.subtargets_in_parallel =>
          \A v \in Variants : InScheduleOrder(v)' /\ StartedOnce(v)]_vars

\* the third subtarget of the schedule runs after the first two have ended
C18_Witness ==
    /\ ~flags.subtargets_in_parallel
    /\ Len(Schedule) = 3
    /\ \E v \in Variants :
        /\ Terminated(v, Schedule[1]) /\ Terminated(v, Schedule[2])
        /\ spc[v][Schedule[3]] = "steps"


\* the worker (v, n) ended inside its dependency loop, at a requirement that
\* is not in the schedule
EndedAtExcludedRequirement(v, n) ==
    /\ Terminated(v, n)
    /\ sdep[v][n] <= Len(targets[n])
    /\ targets[n][sdep[v][n]] \notin Range(Schedule)

\* C19: a scheduled subtarget whose requirement was excluded from the
\* schedule (skip-list or from-list) does not wait on that requirement: its
\* worker does not end at it but goes on to acquire its locks and run its
\* steps
C19_ExcludedRequirementIgnored ==
    \A v \in Variants, n \in Range(Schedule) : ~EndedAtExcludedRequirement(v, n)


\* a step of the worker (v, n) has failed: the worker ended by an exception
\* raised while its steps were evaluated
StepFailed(v, n) ==
    /\ Raised(v, n)
    /\ sstep[v][n] > 0

\* C20: when a step of a subtarget fails, the steps after it and the sets
\* bindings are not evaluated, and the failure is recorded on the node of the
\* subtarget: success false, exception set, duration set
C20_StepFailureRecorded ==
    \A v \in Variants, n \in Range(Schedule) :
        StepFailed(v, n) =>
            /\ sstep[v][n] <= steps[n]
            /\ ~ssets[v][n]
            /\ node[v][n].success = "False"
            /\ node[v][n].exception
            /\ node[v][n].duration


\* the loop "Give summary" of build (lines 436-449) has run: it is the last
\* code before "return result", so it has run exactly when build returned
SummaryEmitted == bpc = "returned"

\* a subtarget of the build has failed: its failure is recorded on its node
SubtargetFailed == \E v \in Variants, n \in Range(Schedule) : node[v][n].success = "False"

\* C21: when a subtarget fails, the build request completes by returning
\* overall success=false after it emitted the summary of the subtargets
C21_FailedBuildReturnsFalse ==
    (BuildEnded /\ SubtargetFailed) =>
        /\ bpc = "returned" /\ bret = "False"
        /\ SummaryEmitted


\* the build object could not be made: Build.__init__ ended by an exception
ConstructionFailed == bpc = "unconstructed"

\* the steps, the sets or the closing assignments of the worker (v, n) are
\* being evaluated
InBody(v, n) == spc[v][n] \in {"steps", "sets", "finish"}

\* the worker (v, n) holds every lock it declares, with the declared count,
\* in the Semaphore its name resolves to
HoldsDeclaredLocks(v, n) ==
    /\ sacq[v][n] = Len(locks[n])
    /\ srel[v][n] = 0
    /\ \A k \in DOMAIN locks[n] :
          LET i == semaphore_of(v, locks[n][k].name)
          IN  /\ HeldBy(v, n, i) >= locks[n][k].count
              /\ sems[i].count >= HeldBy(v, n, i)

\* every worker that evaluates its steps or sets holds its declared locks
DeclaredLocksHeld ==
    \A v \in Variants, n \in Range(Schedule) : InBody(v, n) => HoldsDeclaredLocks(v, n)

\* C23: for each lock a subtarget declares, the {name: count} form with a
\* count above one included, the build is made and the subtarget holds count
\* units of the resolved Semaphore from before its steps start until its
\* steps and sets have completed
C23_DeclaredLocksHeld ==
    /\ ~ConstructionFailed
    /\ DeclaredLocksHeld


\* nothing of the build has been executed: no node scope exists, no worker was
\* started, no lock was asked for and no step or sets binding was evaluated
NothingExecuted ==
    /\ \A v \in Variants : vpc[v] = "unsubmitted"
    /\ \A v \in Variants, n \in Names :
          /\ ~node[v][n].exists
          /\ spc[v][n] = "unsubmitted"
          /\ ~HasRun(v, n)
    /\ \A i \in SemIds : sems[i].count = 0

\* the request of the build names something that is no target
UndefinedNameGiven ==
    \E name \in Range(call.targets) \cup Range(call.skip_targets) \cup Range(call.from_targets) :
        name \notin Names

\* C24: if a requested target, a skip name or a from name is not a defined
\* target, determine_subtargets raises the unknown-name BuildError and nothing
\* is executed: the build never gets past the resolution, where it ends by
\* that error
C24_UnknownNameStopsBuild ==
    UndefinedNameGiven =>
        /\ bpc \in {"construct", "resolve", "raised"}
        /\ bpc = "raised" => bret = "UnknownName"
        /\ NothingExecuted

\* the build ended by the error for an undefined name of the skip-list
C24_Witness ==
    /\ Undefined \in Range(call.skip_targets)
    /\ bpc = "raised"
    /\ bret = "UnknownName"


\* the scopes of the subtargets of the variant of the node scope n that come
\* after n in the schedule: build_variant makes the node scopes in that order
LaterNodes(n) == {m \in sc_live : sc_base[m] = sc_base[n] /\ sc_base[m] # NoBase /\ m > n}

\* C22: a sets binding of a subtarget is evaluated in the scope of the
\* subtarget and written into the variant scope, not into the scope of the
\* subtarget: the later subtargets of the same variant read the value through their
\* base, and every scope but the variant scope, those of the other
\* variants included, is unchanged
C22_SetsWriteVariantScope ==
    [][\A n \in ScopeIds, variable \in Keys, expr \in Expressions, value \in Values :
          (sc_last' = Operation("sets", n, variable, expr, Found(value))) =>
              /\ evaluate(expr, n) = Found(value)
              /\ sc_variables'[variant_scope(n)][variable] = value
              /\ \A s \in ScopeIds \ {variant_scope(n)} : sc_variables'[s] = sc_variables[s]
              /\ \A m \in LaterNodes(n) : getitem(m, variable)' = Found(value)
      ]_vars

\* the first subtarget bound x to a value its scope holds under y, and the
\* second subtarget reads it
C22_Witness ==
    /\ sc_last = Operation("sets", FirstNode, "x", Name("y"), Found(2))
    /\ sc_variables[FirstNode]["y"] = 2
    /\ sc_variables[FirstNode]["x"] = Absent
    /\ getitem(SecondNode, "x") = Found(2)


\* the value the nearest binding of key in the chain of s gives, Absent if no
\* scope of the chain binds key
nearest_value(s, key) ==
    IF binding_scope(s, key) = NoBase THEN Absent
    ELSE sc_variables[binding_scope(s, key)][key]

\* the outcome a lookup that walks the whole chain gives
chain_outcome(op, s, key) ==
    LET value == nearest_value(s, key)
    IN  CASE op = "getitem" -> IF value = Absent THEN AttributeError ELSE Found(value)
          [] op = "contains" -> Found(IF value = Absent THEN False ELSE True)
          [] op = "get" -> Found(value)

\* C25: a lookup (scope[key], key in scope, scope.get(key)) searches the
\* local mapping and then the whole chain of bases: it finds a key that some
\* scope of the chain binds, whatever the scopes in between hold, an empty
\* mapping included
C25_LookupWalksChain ==
    sc_last.op \in {"getitem", "contains", "get"} =>
        sc_last.outcome = chain_outcome(sc_last.op, sc_last.scope, sc_last.key)

\* the lookups in the chains without an empty scope between the scope asked
\* and the binding
NoEmptyBetween(s, key) ==
    \A t \in sc_live :
        (t < s /\ t > binding_scope(s, key)) => scope_len(t) > 0

LookupWalksFilledChain ==
    (sc_last.op \in {"getitem", "contains", "get"} /\ NoEmptyBetween(sc_last.scope, sc_last.key)) =>
        sc_last.outcome = chain_outcome(sc_last.op, sc_last.scope, sc_last.key)


\* the scopes of the chain of bases of s, s excluded
RECURSIVE ancestors(_)
ancestors(s) == IF sc_base[s] = NoBase THEN {} ELSE {sc_base[s]} \cup ancestors(sc_base[s])

\* C26: scope[key] = value writes only the local mapping of the scope it is
\* called on: afterwards the scope gives value for key, and the binding or
\* absence of every key in every other scope, its ancestors included, is
\* unchanged
C26_SetWritesLocalOnly ==
    [][sc_last'.op = "set" =>
          \A s \in {sc_last'.scope}, key \in {sc_last'.key}, value \in {sc_last'.outcome.value} :
              /\ getitem(s, key)' = Found(value)
              /\ \A t \in ScopeIds \ {s} : sc_variables'[t] = sc_variables[t]
              /\ \A k \in Keys \ {key} : sc_variables'[s][k] = sc_variables[s][k]
      ]_vars

\* a key was set in a scope whose ancestor binds it to another value
C26_Witness ==
    /\ sc_last.op = "set"
    /\ \E t \in ancestors(sc_last.scope) :
          /\ in_variables(t, sc_last.key)
          /\ sc_variables[t][sc_last.key] # sc_last.outcome.value
    /\ sc_variables[sc_last.scope][sc_last.key] = sc_last.outcome.value

(***************************************************************************)
(* Claims about the interpreter                                            *)
(***************************************************************************)
\* the nodes of the body  [x = 1, <leaf>, x = 2]  and of its expressions
BodyNodes == {3, 4, 5, 6, 7, 8, 10}

\* the log entries of the node i
EvaluationsOf(i) == {k \in DOMAIN ip_st.log : ip_st.log[k][1] = i}

\* the evaluation of the configuration (and the call, for a function) is over
Finished == ip_out.how \in {"value", "raise"} /\ ip_out.val.type # "function"

\* the configuration is a WithRessource on a Semaphore of the class c that
\* has count units free
WithOn(c) ==
    /\ ip_prog[1].kind = "with"
    /\ ip_sem.class = c
    /\ ip_sem.max - ip_sem.held0 >= ip_prog[1].n

\* count units are held during the whole body and given back at its end,
\* and an exception of the body is raised again
HoldsCountDuringBody ==
    /\ EvaluationsOf(3) # {}
    /\ \A k \in DOMAIN ip_st.log :
          ip_st.log[k][1] \in BodyNodes => ip_st.log[k][3] = ip_sem.held0 + ip_prog[1].n
    /\ ip_st.held = ip_sem.held0
    /\ ip_prog[6].kind = "raise" => ip_out = Raises(ErrorValue(ip_prog[6].key, 0))

\* C27: a WithRessource on a semaphore of the build (a utils.Semaphore) holds
\* exactly count units while its body is evaluated and gives the same amount
\* back on every exit path: afterwards as many units are taken as before,
\* and an exception of the body is raised again after the release
C27_WithHoldsCount ==
    (WithOn("utils") /\ Finished) => HoldsCountDuringBody

\* the same when assert statements are not run
WithHoldsCountUnasserted ==
    (WithOn("utils") /\ Finished /\ ~ip_assert) => HoldsCountDuringBody

\* on a threading.Semaphore the body is evaluated and count = 1 is held
WithHoldsOneOfThreading ==
    (WithOn("threading") /\ Finished /\ ip_prog[1].n = 1) => HoldsCountDuringBody

\* the body's Return was evaluated and the evaluation is over
ReturnRaised == Finished /\ ip_prog[6].kind = "return" /\ EvaluationsOf(6) # {}

\* the Return ends the body at once and reaches the Function boundary (or,
\* without a Function, leaves the configuration as a ReturnException); no
\* node of the body is evaluated twice
ReturnPassesThrough ==
    /\ \A i \in BodyNodes : Cardinality(EvaluationsOf(i)) <= 1
    /\ EvaluationsOf(7) = {}
    /\ ip_out = IF ip_prog[1].kind = "function"
                THEN Returns(IntValue(1))
                ELSE Raises(ErrorValue("ReturnException", 1))

\* C28: the signal of a Return is caught only where a Function is called:
\* no other node, in particular a Try without an except list and a
\* WithRessource, intercepts it, evaluates code again because of it, or
\* swallows it
C28_ReturnCaughtByFunctionOnly ==
    (ReturnRaised /\ ~ip_prog[2].has_except) => ReturnPassesThrough

\* the same for the bodies that are not in a Try without an except list
ReturnPassesOtherNodes ==
    (ReturnRaised /\ (ip_prog[2].kind = "try" => ip_prog[2].has_except /\ ip_prog[2].classes))
        => ReturnPassesThrough

\* the Function whose body is  [x = 1, return x, x = 2]  is called without
\* arguments
PlainReturnCall ==
    /\ ip_prog[1].kind = "function" /\ ip_prog[1].params = <<>>
    /\ ip_prog[2].kind = "seq" /\ ip_prog[6].kind = "return"
    /\ ip_args = <<>> /\ ip_kwargs = NoKwargs

\* C29: a Function with the body  [Set(x = 1), Return(x), Set(x = 2)]  that
\* is called without arguments returns 1; the statement after the Return is
\* not evaluated, and x of the scope the function was defined in is unchanged
C29_ReturnEndsFunctionBody ==
    [][(Call /\ PlainReturnCall) =>
          /\ ip_out' = Returns(IntValue(1))
          /\ EvaluationsOf(7)' = {}
          /\ EvaluationsOf(4)' # {}
          /\ ip_st'.scopes[1] = ip_st.scopes[1]
      ]_vars

C29_Witness ==
    /\ PlainReturnCall /\ Finished
    /\ ip_st.scopes[1].vars["x"] = IntValue(2)
    /\ ip_st.scopes[2].vars["x"] = IntValue(1)
    /\ ip_out = Returns(IntValue(1))

\* a Function without declared arguments was called with at least one
\* positional value; scope 2 is the scope of the call
UndeclaredCall ==
    /\ Finished
    /\ ip_prog[1].kind = "function" /\ ip_prog[1].params = <<>>
    /\ ip_args # <<>>

\* C30: a Function without declared arguments that is called with the
\* positional values v1..vn (n >= 1) binds "value" to v1, "args" to the
\* remainder v2..vn, and "kwargs" to the keyword arguments that matched no
\* declared argument
C30_UndeclaredCallBindsRemainder ==
    UndeclaredCall =>
        /\ ip_st.scopes[2].vars["value"] = IntValue(ip_args[1])
        /\ ip_st.scopes[2].args = Tail(ip_args)
        /\ ip_st.scopes[2].kwargs = ip_kwargs

\* what the call binds: "args" is the whole tuple v1..vn
UndeclaredCallBindsWholeTuple ==
    UndeclaredCall =>
        /\ ip_st.scopes[2].vars["value"] = IntValue(ip_args[1])
        /\ ip_st.scopes[2].args = ip_args
        /\ ip_st.scopes[2].kwargs = ip_kwargs

\* with declared arguments "args" is what the declared ones left
DeclaredCallBindsRemainder ==
    (Finished /\ ip_prog[1].kind = "function" /\ ip_prog[1].params = <<"x">>
        /\ ip_kwargs["x"] = 0 /\ ip_args # <<>>) =>
        /\ ip_st.scopes[2].args = Tail(ip_args)
        /\ ip_st.scopes[2].kwargs = ip_kwargs
        /\ ip_st.scopes[2].vars["value"] = AbsentValue

\* the configuration holds a Try with a finally body, and the Try was
\* evaluated to its end
TryWithFinallyDone ==
    /\ Finished
    /\ ip_prog[2].kind = "try" /\ ip_prog[2].fin # 0
    /\ EvaluationsOf(3) # {}

\* the Try returned normally: the evaluation gave a value that is not the
\* value a Return of the body handed to the Function
TryReturned ==
    /\ ip_out.how = "value"
    /\ ~(ip_prog[1].kind = "function" /\ ip_prog[6].kind = "return")

\* C31: the finally body of a Try is evaluated exactly once on every exit
\* path (try succeeded, error handled, error raised again, handler raised),
\* after the evaluations of the try body and of the handler, and when the
\* Try returns normally its result is the value of the finally body
C31_FinallyOnceAndLast ==
    TryWithFinallyDone =>
        /\ Cardinality(EvaluationsOf(9)) = 1
        /\ \A f \in EvaluationsOf(9), k \in DOMAIN ip_st.log :
              ip_st.log[k][1] \in BodyNodes => k < f
        /\ TryReturned => ip_out = Returns(ListValue(1))

\* the error of the try body was handled by the second evaluation, and the
\* Try gave the value of its finally body
C31_Witness ==
    /\ TryWithFinallyDone
    /\ ip_prog[6].kind = "name"
    /\ Cardinality(EvaluationsOf(4)) = 2
    /\ ip_st.scopes[1].vars["y"] = IntValue(2)
    /\ ip_out = Returns(ListValue(1))

\* the error the try body raises in the scope of the Try (a failed lookup
\* is a BuildError)
FirstError ==
    IF ip_prog[6].kind = "raise" THEN ErrorValue(ip_prog[6].key, 0)
    ELSE ErrorValue("BuildError", 0)

\* the scope the Try is evaluated in, and the scope made after it
TryScope == IF ip_prog[1].kind = "function" THEN 2 ELSE 1
NestedScope == TryScope + 1

\* the body of a Try raised an error (not the signal of a Return), and the
\* evaluation is over
TryBodyRaised ==
    /\ Finished
    /\ ip_prog[2].kind = "try"
    /\ ip_prog[6].kind \in {"raise", "name"}
    /\ EvaluationsOf(6) # {}

\* the except list names kinds and the error is of none of them
MatchesNone ==
    ip_prog[2].has_except /\ \A t \in ip_prog[2].except : ~is_instance(FirstError.kind, t)

\* what a Try does with an error of its body
HandlesOrRaisesAgain ==
    IF MatchesNone
    THEN /\ ip_out = Raises(FirstError)
         /\ Cardinality(EvaluationsOf(3)) = 1
    ELSE /\ Cardinality(EvaluationsOf(3)) = 2
         /\ \E k \in EvaluationsOf(3) : ip_st.log[k][2] = NestedScope
         /\ Len(ip_st.scopes) = NestedScope
         /\ ip_st.scopes[NestedScope].base = TryScope
         /\ ip_st.scopes[NestedScope].vars[ip_prog[2].as] = FirstError
         /\ ip_st.scopes[TryScope].vars[ip_prog[2].as] = AbsentValue

\* C32: when the try body of a Try raises an error: if except names error
\* kinds and the error matches none of them, the error is raised again and
\* the body is not evaluated again; otherwise the body is evaluated a second
\* time in a new scope nested under the current one, in which the error is
\* bound under the name given by as (default "exception"), and the current
\* scope does not get that binding
C32_TryHandlesInNestedScope ==
    TryBodyRaised => HandlesOrRaisesAgain

\* the same for the Trys without except list or with classes in it
TryHandlesWithClasses ==
    (TryBodyRaised /\ ip_prog[2].classes) => HandlesOrRaisesAgain

(***************************************************************************)
(* Claims about the phases of a worker                                     *)
(***************************************************************************)
\* C33: each (variant, subtarget) worker passes through its phases in the
\* order wait for dependencies, acquire locks, run steps, run sets, mark
\* finished, release locks: a worker that still waits for a dependency holds
\* no lock, and no phase begins before the one before it is complete
C33_PhasesInOrder ==
    \A v \in Variants, n \in Names :
        /\ spc[v][n] \in {"unsubmitted", "deps"} =>
              /\ sacq[v][n] = 0 /\ srel[v][n] = 0
              /\ sstep[v][n] = 0 /\ ~ssets[v][n]
              /\ ~node[v][n].finished
        /\ sacq[v][n] > 0 => \A d \in Range(targets[n]) : node[v][d].finished
        /\ sstep[v][n] > 0 => sacq[v][n] = Len(locks[n])
        /\ ssets[v][n] => sstep[v][n] = steps[n]
        /\ node[v][n].finished => (sstep[v][n] = steps[n] /\ (sets[n] => ssets[v][n]))
        /\ srel[v][n] > 0 => node[v][n].finished

\* C waits for B and holds nothing while B runs its steps with its lock
C33_Witness ==
    \E v \in Variants :
        /\ spc[v]["C"] = "deps" /\ sacq[v]["C"] = 0 /\ locks["C"] # <<>>
        /\ spc[v]["B"] = "steps" /\ sacq[v]["B"] = 1

\* check_arguments has been called and has ended
ArgumentsChecked == bpc \notin {"construct", "resolve", "arguments"}

\* no semaphore was created and no variant or subtarget was started
NothingStarted ==
    /\ \A i \in SemIds : sems[i] = NoSemaphore
    /\ \A v \in Variants : vpc[v] = "unsubmitted"
    /\ \A v \in Variants, n \in Names : spc[v][n] = "unsubmitted"

\* the required argument of the entry is not defined in the configuration,
\* was not supplied, or is None while the entry has no condition
Unavailable(entry) ==
    \/ entry.argument \notin self_arguments
    \/ arguments.form = "None"
    \/ arguments.value = "absent"
    \/ entry.condition = "none" /\ arguments.value = "None"

\* a scheduled subtarget requires an argument that is not available
ScheduledUnavailable ==
    \E n \in Range(Schedule) : \E k \in DOMAIN required_arguments[n] :
        Unavailable(required_arguments[n][k])

\* what build does with required arguments
RequiredArgumentsChecked ==
    /\ ScheduledUnavailable =>
          (bpc = "raised" /\ bret = "BuildError" /\ NothingStarted)
    /\ (\A n \in Range(Schedule) : required_arguments[n] = <<>>) =>
          ~(bpc = "raised" /\ NothingStarted)

\* C34: if a scheduled subtarget declares a required argument that is not
\* defined in the configuration, was not supplied, or is None (with no
\* condition), build raises a BuildError before any subtarget of any variant
\* starts and before any semaphore is created; the required arguments of the
\* subtargets that are not scheduled are not checked
C34_RequiredArgumentsChecked ==
    ArgumentsChecked => RequiredArgumentsChecked

\* the same for builds that are given a dict, with conditions that are
\* expressions
RequiredArgumentsOfDictChecked ==
    (/\ ArgumentsChecked
     /\ arguments.form = "dict"
     /\ \A n \in Range(Schedule) : \A k \in DOMAIN required_arguments[n] :
           required_arguments[n][k].condition # "dict")
        => RequiredArgumentsChecked

\* C35: in every state of a variant a node with finished true has success
\* true, and a node recorded success false stays so, with finished false,
\* for the rest of the run: a dependent sees a failed requirement only by
\* success false
C35_FinishedMeansSucceeded ==
    [][node' # node =>
          \A v \in Variants, n \in Names :
              /\ node'[v][n].finished => node'[v][n].success = "True"
              /\ node[v][n].success = "False" =>
                    (node'[v][n].success = "False" /\ ~node'[v][n].finished)
      ]_vars

\* A failed and stays unfinished while its sibling B is finished
C35_Witness ==
    \E v \in Variants :
        /\ node[v]["A"].success = "False" /\ ~node[v]["A"].finished
        /\ spc[v]["A"] = "raised"
        /\ node[v]["B"].finished /\ node[v]["B"].success = "True"
        /\ spc[v]["B"] = "returned"

\* the worker (v, n) waits in Semaphore.acquire for one of its locks
WaitsForLock(v, n) == spc[v][n] = "lock_wait"

\* the worker (v, n) has all its locks
Admitted(v, n) == sacq[v][n] = Len(locks[n])

\* C36: the acquisition of locks by workers that run at the same time is free
\* of deadlock: for workers that declare the same locks, in whatever order
\* each declares them, if every sequence of steps ends then every worker that
\* waits for a lock is admitted in the end (a run in which a step raised is
\* left aside: the claim is about sequences of steps that end normally)
C36_WaitingWorkersAdmitted ==
    \A v \in Variants, n \in Names :
        WaitsForLock(v, n) ~> (Admitted(v, n) \/ \E w \in Variants, m \in Names : Raised(w, m))

\* in the variant v, with semaphores of its own, A holds R and waits for S
\* while B holds S and waits for R
CrossedWait(v) ==
    /\ \A r \in ResNames : ressources[r].per_variant
    /\ WaitsForLock(v, "A") /\ sacq[v]["A"] = 1
    /\ WaitsForLock(v, "B") /\ sacq[v]["B"] = 1

\* a crossed wait was reached without a failed step
CrossedWaitReached ==
    /\ \E v \in Variants : CrossedWait(v)
    /\ \A w \in Variants, n \in Names : ~Raised(w, n)

\* once reached, a crossed wait never ends
CrossedWaitStays == [][\A v \in Variants : CrossedWait(v) => CrossedWait(v)']_vars


\* ---- C37 --------------------------------------------------------------------

\* build_subtarget of (v, n) ended by an error that its steps or the values of
\* its "sets" raised (a step began; the errors of the dependency loop come
\* before any step)
EndedByErrorOfStepsOrSets(v, n) == Raised(v, n) /\ sstep[v][n] >= 1

\* C37: whatever the kind of the error that the steps or the "sets" of a
\* subtarget raise, a BuildError or any other exception, the node of the
\* subtarget ends recorded as failed, with success False
C37_ErrorRecordedAsFailure ==
    \A v \in Variants, n \in Names :
        EndedByErrorOfStepsOrSets(v, n) => node[v][n].success = "False"

\* a BuildError raised by the steps is recorded as a failure
BuildErrorOfStepsRecorded ==
    [][\A v \in Variants, n \in Names :
         (spc[v][n] = "steps" /\ spc'[v][n] = "raised" /\ sret'[v][n] = "BuildError")
            => node'[v][n].success = "False"]_vars

\* another exception raised by the steps leaves the node without a record
OtherErrorOfStepsUnrecorded ==
    \E v \in Variants, n \in Names :
        /\ Raised(v, n) /\ sret[v][n] = "Exception" /\ sstep[v][n] >= 1 /\ ~ssets[v][n]
        /\ sets_raise[n].error = "none"
        /\ node[v][n].success = "None"

\* a BuildError raised by the "sets" leaves the node without a record
BuildErrorOfSetsUnrecorded ==
    \E v \in Variants, n \in Names :
        /\ Raised(v, n) /\ sret[v][n] = "BuildError" /\ sets_raise[n].error = "BuildError"
        /\ node[v][n].success = "None"

\* the worker of B polls for ever the node of A, which ended by an error and
\* is neither finished nor failed
WaitsForUnrecorded ==
    \E v \in Variants :
        /\ Raised(v, "A") /\ node[v]["A"].success = "None"
        /\ spc[v]["B"] = "deps" /\ ~ENABLED WaitDependencies(v, "B")


\* ---- C38 --------------------------------------------------------------------

\* the subtargets that the call schedules, as they enter the sort
ScheduledSet == Range(scheduled_subtargets(call.targets, call.skip_targets, call.from_targets))

\* the resolution raised the cyclic-dependency BuildError
RaisedCyclicDependency == result.kind = "BuildError"

\* C38: the cyclic-dependency BuildError is raised only when the requirement
\* relation among the scheduled subtargets contains a cycle; over an acyclic
\* configuration no targets, skip-list and from-list raise it
C38_CyclicDependencyOnlyForCycles ==
    RaisedCyclicDependency => HasCycle(ScheduledSet)

\* the error is raised over a configuration without any requirement cycle,
\* for a call without a from-list
CyclicDependencyWithoutCycle ==
    /\ RaisedCyclicDependency
    /\ ~HasCycle(Names)
    /\ call.from_targets = <<>>

\* without a skip-list and without a from-list the error is raised only for
\* a cycle among the scheduled subtargets
CyclicDependencyOfPlainCall ==
    (RaisedCyclicDependency /\ call.skip_targets = <<>> /\ call.from_targets = <<>>)
        => HasCycle(ScheduledSet)


\* ---- C39 --------------------------------------------------------------------

\* C39: no name of the skip-list appears in the returned schedule, also when
\* the name is a requested target as well
C39_SkippedNeverScheduled ==
    Returned => Range(call.skip_targets) \cap Range(result.subtargets) = {}

\* a name that is skipped and not requested is not in the returned schedule
SkippedUnrequestedNeverScheduled ==
    Returned =>
        (Range(call.skip_targets) \ Range(call.targets)) \cap Range(result.subtargets) = {}

\* a schedule was returned for a call that skips names it does not request
SkippedUnrequestedReturned ==
    /\ Returned
    /\ Range(call.skip_targets) \ Range(call.targets) # {}
    /\ Len(result.subtargets) >= 2

\* a name both requested and skipped is in the returned schedule
SkippedRequestedScheduled ==
    /\ Returned
    /\ Range(call.skip_targets) \cap Range(call.targets) \cap Range(result.subtargets) # {}


\* ---- C40 --------------------------------------------------------------------

\* C40: a failing subtarget publishes nothing in the variant scope: when a
\* step of the subtarget raises, none of its "sets" bindings is written and
\* the step leaves what the variant scope holds of every subtarget as it was;
\* a node recorded as failed has published nothing
C40_FailingPublishesNothing ==
    [][\A v \in Variants, n \in Names :
          /\ (spc[v][n] = "steps" /\ spc'[v][n] = "raised") =>
                (~ssets'[v][n] /\ ssets' = ssets)
          /\ node'[v][n].success = "False" => ~ssets'[v][n]]_vars

\* A has published its bindings, then a step of B, which has "sets" too,
\* raised a BuildError and B published nothing
C40_Witness ==
    \E v \in Variants :
        /\ ssets[v]["A"]
        /\ sets["B"] /\ Raised(v, "B") /\ sret[v]["B"] = "BuildError"
        /\ node[v]["B"].success = "False"
        /\ ~ssets[v]["B"]

\* an error of a later value of the "sets" leaves the bindings before it in
\* the variant scope, for a node without a failure record
SetsErrorAfterBinding ==
    \E v \in Variants, n \in Names :
        /\ Raised(v, n) /\ sets_raise[n].error # "none"
        /\ ssets[v][n]
        /\ node[v][n].success = "None"

====
